---- MODULE Spec2Model ----
(***************************************************************************)
(* Model of the batching-and-aggregation pipeline of src/ai_analyzer.py:   *)
(* PRBatcher.create_batches, GroqAnalyzer.analyze_prs, _analyze_batch,     *)
(* _aggregate_results and _manual_aggregation (specification Spec); of     *)
(* the parsing of a model reply on its own (SpecParse); of                 *)
(* LocalPRLoader.compress_pr_data of src/local_loader.py (SpecCompress);   *)
(* of GitHubClient._make_request of src/github_api.py (SpecRequest); of    *)
(* GitHubClient.get_pull_requests, _fetch_prs_by_state and                 *)
(* get_pull_requests_from_multiple_repos (SpecPull); and of                *)
(* PREnricher.enrich_pr_file and enrich_directory of src/enricher.py       *)
(* (SpecEnrich).                                                           *)
(* Each specification leaves the variables of the other parts idle.        *)
(*                                                                         *)
(* Python values are modelled as tagged records so that values of          *)
(* different Python types can be compared:                                 *)
(*   [t |-> "null", v |-> <<>>]     None / JSON null                       *)
(*   [t |-> "num",  v |-> <<n>>]    a number                               *)
(*   [t |-> "str",  v |-> tokens]   a string, as the sequence of its       *)
(*                                  tokens (the empty string is <<>>)      *)
(*   [t |-> "list", v |-> items]    a list of values                       *)
(*   [t |-> "obj",  v |-> f]        a dict: f is a function from keys      *)
(* A Python call is modelled by its outcome [exc |-> name, val |-> value]: *)
(* exc = "none" when it returns val, the exception's class otherwise.      *)
(***************************************************************************)
EXTENDS Integers, Sequences, FiniteSets, TLC

\* ------------------------------------------------------------- bounds

\* longest record list handed to analyze_prs / create_batches
MaxPRs == 3
\* largest batch size tried
MaxBatch == 2

\* ------------------------------------------------------ Python values

JNull == [t |-> "null", v |-> <<>>]

JNum(n) == [t |-> "num", v |-> <<n>>]

JStr(s) == [t |-> "str", v |-> s]

JList(items) == [t |-> "list", v |-> items]

JObj(f) == [t |-> "obj", v |-> f]

\* the empty dict {}
EmptyDict == JObj([k \in {} |-> JNull])

\* a field name as a string value: one token
KeyStr(k) == JStr(<<k>>)

IsDict(x) == x.t = "obj"

IsList(x) == x.t = "list"

HasKey(d, k) == k \in DOMAIN d.v

\* dict.get(k, default)
DictGet(d, k, default) == IF HasKey(d, k) THEN d.v[k] ELSE default

\* d[k] = x
DictSet(d, k, x) == JObj((k :> x) @@ d.v)

\* Python truth value of a value
Truthy(x) ==
    CASE x.t = "null" -> FALSE
      [] x.t = "num" -> x.v # <<0>>
      [] x.t = "obj" -> DOMAIN x.v # {}
      [] OTHER -> Len(x.v) > 0

Returns(x) == [exc |-> "none", val |-> x]

Raises(e) == [exc |-> e, val |-> JNull]

SeqRange(s) == {s[k] : k \in 1..Len(s)}

Min(a, b) == IF a < b THEN a ELSE b

\* --------------------------------------------------------- the inputs

\* A record is identified by its number (its position in the input) and
\* carries the shape of its "labels" entry: a list, or JSON null, on which
\* compress_pr_data raises.
MkPRs(shape) == [k \in DOMAIN shape |-> [number |-> k, labels |-> shape[k]]]

PRLists == UNION {{MkPRs(sh) : sh \in [1..n -> {"list", "null"}]} : n \in 0..MaxPRs}

\* the field arguments tried: None (an absent field list), [], and two
\* lists of names
FieldArgs == {JNull, JList(<<>>), JList(<<"F1">>), JList(<<"F1", "F2">>)}

\* the batch sizes tried: the code does not validate batch_size
BatchSizes == (0 - 1)..MaxBatch

\* ------------------------------------------------------ PRBatcher

RECURSIVE PyRange(_, _, _)
\* range(start, stop, step) for step # 0, as the sequence of its values
PyRange(start, stop, step) ==
    IF (step > 0 /\ start >= stop) \/ (step < 0 /\ start <= stop)
    THEN <<>>
    ELSE <<start>> \o PyRange(start + step, stop, step)

\* prs[i : j] for 0 <= i
PySlice(s, i, j) == SubSeq(s, i + 1, Min(j, Len(s)))

\* create_batches with range(0, len(prs) - n + 1, n): the remainder is lost
create_batches_no_remainder(prs, n) ==
    IF prs = <<>> THEN Returns(JList(<<>>))
    ELSE IF n = 0 THEN Raises("ValueError")
    ELSE LET starts == PyRange(0, Len(prs) - n + 1, n)
         IN Returns(JList([k \in 1..Len(starts) |-> PySlice(prs, starts[k], starts[k] + n)]))

\* create_batches with a test that rejects a batch size below 1
create_batches_positive_only(prs, n) ==
    IF prs = <<>> THEN Returns(JList(<<>>))
    ELSE IF n <= 0 THEN Raises("ValueError")
    ELSE LET starts == PyRange(0, Len(prs), n)
         IN Returns(JList([k \in 1..Len(starts) |-> PySlice(prs, starts[k], starts[k] + n)]))

\* PRBatcher.create_batches with self.batch_size = n
create_batches(prs, n) ==
    IF prs = <<>> THEN Returns(JList(<<>>))
    ELSE IF n = 0 THEN Raises("ValueError")
    ELSE LET starts == PyRange(0, Len(prs), n)
         IN Returns(JList([k \in 1..Len(starts) |-> PySlice(prs, starts[k], starts[k] + n)]))

\* ------------------------------------------------ the model's replies

\* The text of a reply is the sequence of its tokens: a code fence ```,
\* the word json, another language tag, white space, other text, or the
\* text of one JSON value (v is that value).
Tok(kind) == [tok |-> kind, v |-> JNull]

ValTok(x) == [tok |-> "val", v |-> x]

RECURSIVE LStrip(_)
LStrip(s) == IF s # <<>> /\ s[1].tok = "ws" THEN LStrip(Tail(s)) ELSE s

RECURSIVE RStrip(_)
RStrip(s) ==
    IF s # <<>> /\ s[Len(s)].tok = "ws" THEN RStrip(SubSeq(s, 1, Len(s) - 1)) ELSE s

\* str.strip()
Strip(s) == RStrip(LStrip(s))

\* content.startswith("```json")
StartsWithFenceJson(s) == Len(s) >= 2 /\ s[1].tok = "fence" /\ s[2].tok = "json"

\* content.startswith("```")
StartsWithFence(s) == Len(s) >= 1 /\ s[1].tok = "fence"

\* content.endswith("```")
EndsWithFence(s) == Len(s) >= 1 /\ s[Len(s)].tok = "fence"

\* the cleaning without its third statement: a closing fence stays
StripFencesOpeningOnly(content) ==
    LET c1 == IF StartsWithFenceJson(content) THEN SubSeq(content, 3, Len(content)) ELSE content
    IN IF StartsWithFence(c1) THEN Tail(c1) ELSE c1

\* the three "if content...." statements that clean the markdown fences
StripFences(content) ==
    LET c1 == IF StartsWithFenceJson(content) THEN SubSeq(content, 3, Len(content)) ELSE content
        c2 == IF StartsWithFence(c1) THEN Tail(c1) ELSE c1
    IN IF EndsWithFence(c2) THEN SubSeq(c2, 1, Len(c2) - 1) ELSE c2

\* json.loads(text)
json_loads(text) ==
    LET s == Strip(text)
    IN IF Len(s) = 1 /\ s[1].tok = "val" THEN Returns(s[1].v) ELSE Raises("JSONDecodeError")

\* response.choices[0].message.content.strip() ... json.loads(content.strip())
ParseContent(content) == json_loads(Strip(StripFences(Strip(content))))

\* What self.client.chat.completions.create does: it raises, or it answers
\* with no content (content is None), or it answers with a text.
CallRaises == [kind |-> "raise", content |-> <<>>]

NoContent == [kind |-> "nocontent", content |-> <<>>]

Reply(content) == [kind |-> "reply", content |-> content]

\* the try block after the prompt, up to json.loads: the parsed value, or
\* the exception raised inside the try block
TryParse(outcome) ==
    CASE outcome.kind = "raise" -> Raises("APIError")
      [] outcome.kind = "nocontent" -> Raises("AttributeError")
      [] OTHER -> ParseContent(outcome.content)

\* ------------------------------------------------- _analyze_batch

\* LocalPRLoader.compress_pr_data raises on a record whose labels entry is
\* null: the comprehension over pr.get('labels', []) iterates None
CompressRaises(pr) == pr.labels = "null"

\* the f-string prompts evaluate ', '.join(fields) and fields[0]
PromptExc(fields) ==
    IF fields.t = "null" THEN "TypeError"
    ELSE IF fields.v = <<>> THEN "IndexError"
    ELSE "none"

\* the empty structure without the requested fields
EmptyBatchResultNoFields(fields) ==
    JObj(("fields" :> EmptyDict) @@ ("partial_summary" :> JStr(<<>>)))

\* {"fields": {field: [] for field in fields}, "partial_summary": ""}
EmptyBatchResult(fields) ==
    JObj(("fields" :> JObj([k \in SeqRange(fields.v) |-> JList(<<>>)]))
         @@ ("partial_summary" :> JStr(<<>>)))

\* the statements of _analyze_batch before its try block: the exception
\* they raise, or "none"
BatchPreludeExc(batch, fields) ==
    IF \E k \in 1..Len(batch) : CompressRaises(batch[k]) THEN "TypeError"
    ELSE PromptExc(fields)

\* _analyze_batch with the JSONDecodeError clause only
BatchTryJSONOnly(fields, outcome) ==
    LET parsed == TryParse(outcome)
    IN IF parsed.exc = "none" THEN Returns(parsed.val)
       ELSE IF parsed.exc = "JSONDecodeError" THEN Returns(EmptyBatchResult(fields))
       ELSE parsed

\* the try block of _analyze_batch with its two except clauses
BatchTry(fields, outcome) ==
    LET parsed == TryParse(outcome)
    IN IF parsed.exc = "none" THEN Returns(parsed.val)
       ELSE IF parsed.exc = "JSONDecodeError" THEN Returns(EmptyBatchResult(fields))
       ELSE Returns(EmptyBatchResult(fields))

\* GroqAnalyzer._analyze_batch
analyze_batch(batch, fields, outcome) ==
    LET pre == BatchPreludeExc(batch, fields)
    IN IF pre # "none" THEN Raises(pre) ELSE BatchTry(fields, outcome)

\* ------------------------------------------------ _manual_aggregation

\* the statements "result_fields = result.get('fields', {})" and
\* "items = result_fields.get(field, []); merged_fields[field].extend(items)"
\* for one batch result: the exception they raise, or "none"
ExtendExc(result, fields) ==
    IF ~IsDict(result) THEN "AttributeError"
    ELSE LET rf == DictGet(result, "fields", EmptyDict)
         IN IF fields.v = <<>> THEN "none"
            ELSE IF ~IsDict(rf) THEN "AttributeError"
            ELSE IF \E k \in SeqRange(fields.v) : ~IsList(DictGet(rf, k, JList(<<>>)))
                 THEN "TypeError"
            ELSE "none"

RECURSIVE MergedItems(_, _)
\* merged_fields[field] after the "Combine all items" loop: the entries of
\* the batch results for that field, in batch order
MergedItems(batch_results, field) ==
    IF batch_results = <<>> THEN <<>>
    ELSE DictGet(DictGet(Head(batch_results), "fields", EmptyDict), field, JList(<<>>)).v
         \o MergedItems(Tail(batch_results), field)

\* set(items) raises TypeError on an item that is a list or a dict
Hashable(items) == \A k \in 1..Len(items) : items[k].t \notin {"list", "obj"}

\* list(items): no duplicate is removed
ListNoDedup(items) == {items}

\* list(set(items)): the distinct items, in an order the code does not fix
ListOfSet(items) ==
    LET S == SeqRange(items)
    IN {l \in [1..Cardinality(S) -> S] : SeqRange(l) = S}

RECURSIVE SummariesUnfiltered(_)
\* [r.get("partial_summary", "") for r in batch_results]: nothing is skipped
SummariesUnfiltered(batch_results) ==
    IF batch_results = <<>> THEN <<>>
    ELSE <<DictGet(Head(batch_results), "partial_summary", JStr(<<>>))>>
         \o SummariesUnfiltered(Tail(batch_results))

RECURSIVE Summaries(_)
\* [r.get("partial_summary", "") for r in batch_results if r.get("partial_summary")]
Summaries(batch_results) ==
    IF batch_results = <<>> THEN <<>>
    ELSE LET ps == DictGet(Head(batch_results), "partial_summary", JStr(<<>>))
         IN (IF Truthy(DictGet(Head(batch_results), "partial_summary", JNull))
             THEN <<ps>> ELSE <<>>) \o Summaries(Tail(batch_results))

RECURSIVE JoinSpace(_)
\* " ".join(strings), on the token sequences of the strings
JoinSpace(strs) ==
    IF strs = <<>> THEN <<>>
    ELSE IF Len(strs) = 1 THEN strs[1].v
    ELSE strs[1].v \o <<" ">> \o JoinSpace(Tail(strs))

\* the text "Analysis completed successfully.", one token
DefaultSummary == <<"Analysis completed successfully.">>

\* combined_summary or "Analysis completed successfully."
SummaryOrDefault(s) == IF s = <<>> THEN DefaultSummary ELSE s

\* the exception _manual_aggregation raises, or "none"
ManualExc(batch_results, fields) ==
    LET bad == {k \in 1..Len(batch_results) : ExtendExc(batch_results[k], fields) # "none"}
    IN IF bad # {}
       THEN ExtendExc(batch_results[CHOOSE k \in bad : \A j \in bad : k <= j], fields)
       ELSE IF \E f \in SeqRange(fields.v) : ~Hashable(MergedItems(batch_results, f))
       THEN "TypeError"
       ELSE IF \E k \in 1..Len(batch_results) :
                   LET ps == DictGet(batch_results[k], "partial_summary", JNull)
                   IN Truthy(ps) /\ ps.t # "str"
       THEN "TypeError"
       ELSE "none"

\* the mappings merged_fields may be after the "Remove duplicates" loop
MergedFields(batch_results, fields) ==
    LET keys == SeqRange(fields.v)
        lists == UNION {ListOfSet(MergedItems(batch_results, f)) : f \in keys}
    IN {m \in [keys -> lists] : \A f \in keys : m[f] \in ListOfSet(MergedItems(batch_results, f))}

\* GroqAnalyzer._manual_aggregation: its possible outcomes
manual_aggregation(batch_results, fields) ==
    IF ManualExc(batch_results, fields) # "none"
    THEN {Raises(ManualExc(batch_results, fields))}
    ELSE {Returns(JObj(("fields" :> JObj([f \in DOMAIN m |-> JList(m[f])]))
                       @@ ("summary" :> JStr(SummaryOrDefault(JoinSpace(Summaries(batch_results)))))))
          : m \in MergedFields(batch_results, fields)}

\* ------------------------------------------------ _aggregate_results

\* the statements of _aggregate_results before its try block: the loop
\* calling result.get('partial_summary', '') and the f-string prompt
AggPreludeExc(batch_results, fields) ==
    IF \E k \in 1..Len(batch_results) : ~IsDict(batch_results[k]) THEN "AttributeError"
    ELSE PromptExc(fields)

\* "key in x" for a string key: "yes", "no", or "TypeError" when x is not a
\* container
PyIn(key, x) ==
    CASE x.t = "obj" -> IF HasKey(x, key) THEN "yes" ELSE "no"
      [] x.t = "list" -> IF KeyStr(key) \in SeqRange(x.v) THEN "yes" ELSE "no"
      [] x.t = "str" -> IF key \in SeqRange(x.v) THEN "yes" ELSE "no"
      [] OTHER -> "TypeError"

\* if "fields" not in result: result["fields"] = {}
EnsureFieldsKey(result) ==
    LET has == PyIn("fields", result)
    IN IF has = "TypeError" THEN Raises("TypeError")
       ELSE IF has = "yes" THEN Returns(result)
       ELSE IF IsDict(result) THEN Returns(DictSet(result, "fields", EmptyDict))
       ELSE Raises("TypeError")

\* the loop without its test: every requested field is set to an empty list
EnsureFieldsOverwrite(result, names) ==
    IF ~IsDict(result) \/ ~IsDict(result.v["fields"]) THEN Raises("TypeError")
    ELSE LET rf == result.v["fields"]
         IN Returns(DictSet(result, "fields",
                JObj([f \in DOMAIN rf.v \cup SeqRange(names) |->
                        IF f \in SeqRange(names) THEN JList(<<>>) ELSE rf.v[f]])))

RECURSIVE EnsureFields(_, _)
\* for field in fields: if field not in result["fields"]: result["fields"][field] = []
EnsureFields(result, names) ==
    IF names = <<>> THEN Returns(result)
    ELSE IF ~IsDict(result) THEN Raises("TypeError")
    ELSE LET rf == result.v["fields"]
             has == PyIn(Head(names), rf)
         IN IF has = "TypeError" THEN Raises("TypeError")
            ELSE IF has = "yes" THEN EnsureFields(result, Tail(names))
            ELSE IF IsDict(rf)
                 THEN EnsureFields(DictSet(result, "fields", DictSet(rf, Head(names), JList(<<>>))),
                                   Tail(names))
            ELSE Raises("TypeError")

\* the try block of _aggregate_results up to "return result": the value
\* returned, or the exception raised inside the try block
AggTry(fields, outcome) ==
    LET parsed == TryParse(outcome)
    IN IF parsed.exc # "none" THEN parsed
       ELSE LET r1 == EnsureFieldsKey(parsed.val)
            IN IF r1.exc # "none" THEN r1 ELSE EnsureFields(r1.val, fields.v)

\* _aggregate_results with the JSONDecodeError clause only
AggCaughtJSONOnly(e) == e = "JSONDecodeError"

\* which except clause handles exception e of the try block of
\* _aggregate_results: both clauses call _manual_aggregation
AggCaught(e) == e = "JSONDecodeError" \/ e # "none"

\* GroqAnalyzer._aggregate_results: its possible outcomes, each with the
\* path taken ("model": the try block returned; "manual": the fallback ran;
\* "none": an exception was raised before the try block)
aggregate_results(batch_results, fields, outcome) ==
    LET pre == AggPreludeExc(batch_results, fields)
        t == AggTry(fields, outcome)
    IN IF pre # "none" THEN {[path |-> "none", out |-> Raises(pre)]}
       ELSE IF t.exc = "none" THEN {[path |-> "model", out |-> t]}
       ELSE IF AggCaught(t.exc)
       THEN {[path |-> "manual", out |-> o] : o \in manual_aggregation(batch_results, fields)}
       ELSE {[path |-> "none", out |-> t]}

\* -------------------------------------------- the replies that are tried

\* a list of strings, each of one token
Items(names) == JList([k \in DOMAIN names |-> KeyStr(names[k])])

\* the JSON values the completion model answers a batch prompt with
BatchValues ==
    { \* every requested field and a summary
      JObj(("fields" :> JObj(("F1" :> Items(<<"X">>)) @@ ("F2" :> Items(<<"Y">>))))
           @@ ("partial_summary" :> JStr(<<"a">>))),
      \* F2 omitted, a field that was not requested
      JObj(("fields" :> JObj(("F1" :> Items(<<"Y", "X">>)) @@ ("Extra" :> Items(<<"Z">>))))
           @@ ("partial_summary" :> JStr(<<"b">>))),
      \* a value twice in one list, no partial_summary
      JObj("fields" :> JObj("F2" :> Items(<<"X", "X">>))),
      \* no fields mapping, an empty partial_summary
      JObj("partial_summary" :> JStr(<<>>)),
      \* JSON that is not an object
      JList(<<>>),
      \* fields is null
      JObj(("fields" :> JNull) @@ ("partial_summary" :> JStr(<<"a">>))),
      \* an entry that is itself a list
      JObj("fields" :> JObj("F1" :> JList(<<JList(<<>>)>>))),
      \* a partial_summary that is a number
      JObj("partial_summary" :> JNum(5)) }

\* the JSON values the completion model answers the aggregation prompt with
AggValues ==
    { JObj(("fields" :> JObj(("F1" :> Items(<<"X">>)) @@ ("F2" :> Items(<<"Y">>))))
           @@ ("summary" :> JStr(<<"m">>))),
      \* F2 omitted, a field that was not requested
      JObj(("fields" :> JObj(("F1" :> Items(<<"X">>)) @@ ("Extra" :> Items(<<"Z">>))))
           @@ ("summary" :> JStr(<<"m">>))),
      \* neither fields nor summary
      EmptyDict,
      \* JSON that is not an object
      JList(<<>>),
      JStr(<<"fields">>),
      JNum(5),
      \* fields is a list of the field names
      JObj(("fields" :> Items(<<"F1", "F2">>)) @@ ("summary" :> JStr(<<"m">>))),
      \* fields is null
      JObj(("fields" :> JNull) @@ ("summary" :> JStr(<<"m">>))),
      \* a field mapped to null
      JObj(("fields" :> JObj("F1" :> JNull)) @@ ("summary" :> JStr(<<"m">>))) }

\* the text of a JSON value as it stands
Bare(x) == <<ValTok(x)>>

\* the text of a JSON value in a ```json ... ``` block
Fenced(x) == <<Tok("fence"), Tok("json"), Tok("ws"), ValTok(x), Tok("ws"), Tok("fence")>>

\* text that is no JSON
NonJSON == <<Tok("junk")>>

Outcomes(values) ==
    {CallRaises, NoContent, Reply(NonJSON)}
    \cup {Reply(Bare(x)) : x \in values} \cup {Reply(Fenced(x)) : x \in values}

\* ---------------------------------------------------------- the state

VARIABLES
    prs,            \* the record list of the call
    fields,         \* the field list of the call
    batch_size,     \* the batch size of the call
    pc,             \* "idle", "loop" (analyze_prs is in its for loop or before
                    \* the aggregation), "done"
    entry,          \* the function that was called
    batches,        \* analyze_prs: batches
    batch_results,  \* analyze_prs: batch_results
    last_outcome,   \* what the last call of the completion model did
    calls,          \* the calls of the completion model so far: "batch", "agg"
    call_args,      \* what each of these calls was made for: the batch, or
                    \* the list of batch results
    agg_path,       \* the path _aggregate_results took
    raised_in,      \* the function an escaping exception was raised in
    result,         \* the outcome of the call, once pc = "done"
    reply_text,     \* fence stripping: the reply text handed to the parser
    parse_out,      \* fence stripping: the outcome of stripping and parsing
    pr,             \* compress_pr_data: the record
    compressed,     \* compress_pr_data: its outcome, the lines of the text
    req_pc,         \* _make_request: "idle", "loop" or "done"
    retry_count,    \* _make_request: retry_count
    answers,        \* _make_request: what each requests.get so far gave
    req_result,     \* _make_request: the outcome of the call
    pull_pc,        \* fetching: "idle", "repos" (in the loop over the
                    \* repositories) or "done"
    pull_args,      \* fetching: the function called and its arguments
    fetches,        \* fetching: the _fetch_prs_by_state calls of the last
                    \* get_pull_requests call, each with its query and outcome
    repo_calls,     \* fetching: the get_pull_requests call of each iteration
                    \* of the loop over the repositories
    repo_results,   \* get_pull_requests_from_multiple_repos: results
    pull_out,       \* fetching: the outcome of the call
    disk,           \* enrichment: the directory, file name to content
    fetched,        \* enrichment: the get_pr_files calls made for each file
    enrich_pc,      \* enrichment: "idle" or "loop" (enrich_directory is in
                    \* its for loop)
    enrich_args,    \* enrich_directory: the repo argument and the directory
    pr_files,       \* enrich_directory: the PR files still to be visited
    stats,          \* enrich_directory: stats
    visit,          \* enrichment: the last visit of a file, by either
                    \* function, and what it did
    passes          \* enrichment: the calls started so far

pipeline_vars == <<prs, fields, batch_size, pc, entry, batches, batch_results,
                   last_outcome, calls, call_args, agg_path, raised_in, result>>

parse_vars == <<reply_text, parse_out>>

compress_vars == <<pr, compressed>>

request_vars == <<req_pc, retry_count, answers, req_result>>

pull_vars == <<pull_pc, pull_args, fetches, repo_calls, repo_results, pull_out>>

enrich_vars == <<disk, fetched, enrich_pc, enrich_args, pr_files, stats, visit,
                 passes>>

vars == <<pipeline_vars, parse_vars, compress_vars, request_vars, pull_vars,
          enrich_vars>>

NoCall == [kind |-> "nocall", content |-> <<>>]

Pending == Raises("pending")

\* the analysis pipeline, not called
PipelineIdle ==
    /\ prs = <<>>
    /\ fields = JNull
    /\ batch_size = 1
    /\ pc = "off"
    /\ entry = "none"
    /\ batches = <<>>
    /\ batch_results = <<>>
    /\ last_outcome = NoCall
    /\ calls = <<>>
    /\ call_args = <<>>
    /\ agg_path = "none"
    /\ raised_in = "none"
    /\ result = Pending

\* the parsing of a reply, not called
ParseIdle ==
    /\ reply_text = <<>>
    /\ parse_out = Pending

\* compress_pr_data, not called
CompressIdle ==
    /\ pr = JNull
    /\ compressed = Pending

\* _make_request, not called
RequestIdle ==
    /\ req_pc = "off"
    /\ retry_count = 0
    /\ answers = <<>>
    /\ req_result = Pending

\* the fetching of pull requests, not called
PullIdle ==
    /\ pull_pc = "off"
    /\ pull_args = <<>>
    /\ fetches = <<>>
    /\ repo_calls = <<>>
    /\ repo_results = EmptyDict
    /\ pull_out = Pending

\* the enrichment, not called
EnrichIdle ==
    /\ disk = <<>>
    /\ fetched = <<>>
    /\ enrich_pc = "off"
    /\ enrich_args = <<>>
    /\ pr_files = <<>>
    /\ stats = <<>>
    /\ visit = <<>>
    /\ passes = 0

Init ==
    /\ prs \in PRLists
    /\ fields \in FieldArgs
    /\ batch_size \in BatchSizes
    /\ pc = "idle"
    /\ entry = "none"
    /\ batches = <<>>
    /\ batch_results = <<>>
    /\ last_outcome = NoCall
    /\ calls = <<>>
    /\ call_args = <<>>
    /\ agg_path = "none"
    /\ raised_in = "none"
    /\ result = Pending
    /\ ParseIdle
    /\ CompressIdle
    /\ RequestIdle
    /\ PullIdle
    /\ EnrichIdle

\* the for loop of analyze_prs appends one result per iteration: it has run
\* through the batches once there is a result for each
LoopExhaustedAfterFirst(results, bs) == results # <<>> \/ bs = <<>>

LoopExhausted(results, bs) == Len(results) = Len(bs)

\* the batch of the next iteration: enumerate(batches, 1) goes through the
\* batches in their order
NextBatch(results, bs) == bs[Len(results) + 1]

\* a direct call of PRBatcher.create_batches
CreateBatches ==
    /\ pc = "idle"
    /\ LET cb == create_batches(prs, batch_size)
       IN /\ result' = cb
          /\ batches' = cb.val.v
          /\ raised_in' = IF cb.exc # "none" THEN "create_batches" ELSE "none"
    /\ pc' = "done"
    /\ entry' = "create_batches"
    /\ UNCHANGED <<prs, fields, batch_size, batch_results, last_outcome, calls,
                   call_args, agg_path>>
    /\ UNCHANGED <<parse_vars, compress_vars, request_vars, pull_vars,
                   enrich_vars>>

\* analyze_prs, "if not prs": the early return
AnalyzeEmpty ==
    /\ pc = "idle"
    /\ prs = <<>>
    /\ result' = Returns(JObj(("fields" :> EmptyDict)
                              @@ ("summary" :> JStr(<<"No data available">>))))
    /\ pc' = "done"
    /\ entry' = "analyze_prs"
    /\ UNCHANGED <<prs, fields, batch_size, batches, batch_results, last_outcome,
                   calls, call_args, agg_path, raised_in>>
    /\ UNCHANGED <<parse_vars, compress_vars, request_vars, pull_vars,
                   enrich_vars>>

\* analyze_prs up to its for loop: the batches are made
AnalyzeStart ==
    /\ pc = "idle"
    /\ prs # <<>>
    /\ entry' = "analyze_prs"
    /\ LET cb == create_batches(prs, batch_size)
       IN IF cb.exc # "none"
          THEN /\ result' = cb
               /\ raised_in' = "create_batches"
               /\ pc' = "done"
               /\ UNCHANGED batches
          ELSE /\ batches' = cb.val.v
               /\ pc' = "loop"
               /\ UNCHANGED <<result, raised_in>>
    /\ UNCHANGED <<prs, fields, batch_size, batch_results, last_outcome, calls,
                   call_args, agg_path>>
    /\ UNCHANGED <<parse_vars, compress_vars, request_vars, pull_vars,
                   enrich_vars>>

\* one iteration of the for loop of analyze_prs: _analyze_batch on the next
\* batch, and its result appended
AnalyzeBatch ==
    /\ pc = "loop"
    /\ ~LoopExhausted(batch_results, batches)
    /\ LET batch == NextBatch(batch_results, batches)
           called == BatchPreludeExc(batch, fields) = "none"
       IN \E outcome \in Outcomes(BatchValues) :
            LET r == analyze_batch(batch, fields, outcome)
            IN /\ IF called
                  THEN /\ last_outcome' = outcome
                       /\ calls' = Append(calls, "batch")
                       /\ call_args' = Append(call_args, batch)
                  ELSE UNCHANGED <<last_outcome, calls, call_args>>
               /\ IF r.exc # "none"
                  THEN /\ result' = r
                       /\ raised_in' = "_analyze_batch"
                       /\ pc' = "done"
                       /\ UNCHANGED batch_results
                  ELSE /\ batch_results' = Append(batch_results, r.val)
                       /\ UNCHANGED <<result, raised_in, pc>>
    /\ UNCHANGED <<prs, fields, batch_size, entry, batches, agg_path>>
    /\ UNCHANGED <<parse_vars, compress_vars, request_vars, pull_vars,
                   enrich_vars>>

\* analyze_prs after its for loop: _aggregate_results, and the return
Aggregate ==
    /\ pc = "loop"
    /\ LoopExhausted(batch_results, batches)
    /\ LET called == AggPreludeExc(batch_results, fields) = "none"
       IN \E outcome \in Outcomes(AggValues) :
            \E a \in aggregate_results(batch_results, fields, outcome) :
               /\ IF called
                  THEN /\ last_outcome' = outcome
                       /\ calls' = Append(calls, "agg")
                       /\ call_args' = Append(call_args, batch_results)
                  ELSE UNCHANGED <<last_outcome, calls, call_args>>
               /\ result' = a.out
               /\ agg_path' = a.path
               /\ raised_in' = IF a.out.exc = "none" THEN "none"
                               ELSE IF a.path = "manual" THEN "_manual_aggregation"
                               ELSE "_aggregate_results"
    /\ pc' = "done"
    /\ UNCHANGED <<prs, fields, batch_size, entry, batches, batch_results>>
    /\ UNCHANGED <<parse_vars, compress_vars, request_vars, pull_vars,
                   enrich_vars>>

Next ==
    \/ CreateBatches
    \/ AnalyzeEmpty
    \/ AnalyzeStart
    \/ AnalyzeBatch
    \/ Aggregate

Spec == Init /\ [][Next]_vars

\* ------------------------------------------- the parsing of a reply

\* the JSON values whose text the replies carry
JsonValues ==
    { JObj(("fields" :> JObj("F1" :> Items(<<"X">>))) @@ ("summary" :> JStr(<<"m">>))),
      JList(<<>>),
      JStr(<<"fields">>),
      JNum(5) }

\* white space, or none
OptWs == {<<>>, <<Tok("ws")>>}

\* how a reply opens: no fence, a fence, a fence with the tag json, a fence
\* with another language tag
OpeningsJson == {<<>>, <<Tok("fence")>>, <<Tok("fence"), Tok("json")>>}

OpeningsOtherTag == {<<Tok("fence"), Tok("lang")>>}

\* how it closes: with a fence or without
Closings == {<<>>, <<Tok("fence")>>}

\* the replies that are the text body between one of the openings and a
\* closing, with or without white space around and between
Wrapped(openings, body) ==
    { w1 \o op \o w2 \o body \o w3 \o cl \o w4 :
        w1 \in OptWs, op \in openings, w2 \in OptWs, w3 \in OptWs,
        cl \in Closings, w4 \in OptWs }

\* the reply texts tried: JSON text and text that is not JSON, wrapped
ReplyTexts ==
    UNION { Wrapped(OpeningsJson \cup OpeningsOtherTag, body) :
              body \in {Bare(x) : x \in JsonValues} \cup {NonJSON} }

ParseInit ==
    /\ PipelineIdle
    /\ reply_text \in ReplyTexts
    /\ parse_out = Pending
    /\ CompressIdle
    /\ RequestIdle
    /\ PullIdle
    /\ EnrichIdle

\* content.strip(), the fence cleaning and json.loads(content.strip()) on
\* the content of a reply
ParseReply ==
    /\ parse_out = Pending
    /\ parse_out' = ParseContent(reply_text)
    /\ UNCHANGED <<reply_text, pipeline_vars, compress_vars, request_vars,
                   pull_vars, enrich_vars>>

ParseNext == ParseReply

SpecParse == ParseInit /\ [][ParseNext]_vars

\* ------------------------------------------------ compress_pr_data

\* the longest file list tried
MaxFiles == 12

\* informative_files[:10], files_with_patch[:5], len(key_lines) >= 3
FileLimit == 10

PatchFileLimit == 5

KeyLineLimit == 3

\* A key the dictionary does not have, and dict.get(key, default) on it.
Absent == [t |-> "absent", v |-> <<>>]

GetOr(x, default) == IF x.t = "absent" THEN default ELSE x

\* A file name and a line of a patch are sequences of pieces of text: a
\* name such as src/f1.py is <<"src/", "f1", ".", "py">>, a line such as
\* "+import os" is <<"+", "import", " ", "os">>. The names and lines tried
\* are cut so that every text the code looks for begins and ends between
\* two pieces.

\* str.startswith, str.endswith, the in operator on two strings
StartsWith(s, pre) == Len(s) >= Len(pre) /\ SubSeq(s, 1, Len(pre)) = pre

EndsWith(s, suf) == Len(s) >= Len(suf) /\ SubSeq(s, Len(s) - Len(suf) + 1, Len(s)) = suf

Contains(s, sub) == \E i \in 0..(Len(s) - Len(sub)) : SubSeq(s, i + 1, i + Len(sub)) = sub

\* str.lower on the pieces tried
Lower(piece) ==
    CASE piece = "PY" -> "py"
      [] piece = "TS" -> "ts"
      [] OTHER -> piece

\* str.strip on a line: the blanks at both ends go
RECURSIVE LStripBlanks(_)
LStripBlanks(s) == IF s # <<>> /\ s[1] = " " THEN LStripBlanks(Tail(s)) ELSE s

RECURSIVE RStripBlanks(_)
RStripBlanks(s) ==
    IF s # <<>> /\ s[Len(s)] = " " THEN RStripBlanks(SubSeq(s, 1, Len(s) - 1)) ELSE s

StripBlanks(s) == RStripBlanks(LStripBlanks(s))

exclude_patterns ==
    { <<".", "lock">>, <<"package-lock", ".", "json">>, <<"yarn", ".", "lock">>,
      <<"poetry", ".", "lock">>, <<".", "idea/">>, <<".", "vscode/">>,
      <<"node_modules/">>, <<"__pycache__/">> }

code_extensions ==
    { "py", "ts", "tsx", "js", "jsx", "java", "go", "rs",
      "cpp", "c", "rb", "php", "vue", "html", "css", "scss" }

tech_map ==
    ("py" :> "Python") @@ ("js" :> "JavaScript") @@ ("jsx" :> "React")
    @@ ("ts" :> "TypeScript") @@ ("tsx" :> "React/TypeScript") @@ ("java" :> "Java")
    @@ ("go" :> "Go") @@ ("rs" :> "Rust") @@ ("cpp" :> "C++") @@ ("c" :> "C")
    @@ ("rb" :> "Ruby") @@ ("php" :> "PHP") @@ ("vue" :> "Vue") @@ ("html" :> "HTML")
    @@ ("css" :> "CSS") @@ ("scss" :> "SCSS") @@ ("yaml" :> "YAML") @@ ("yml" :> "YAML")
    @@ ("json" :> "JSON") @@ ("md" :> "Markdown") @@ ("sql" :> "SQL") @@ ("sh" :> "Shell")

keywords ==
    { <<"import", " ">>, <<"from", " ">>, <<"class", " ">>, <<"def", " ">>,
      <<"function", " ">>, <<"const", " ">>, <<"let", " ">>, <<"var", " ">>,
      <<"interface", " ">>, <<"type", " ">>, <<"@">>, <<"async", " ">>,
      <<"export", " ">> }

\* the technology names in the order sorted() gives them (code points)
TechOrder ==
    << "C", "C++", "CSS", "Go", "HTML", "JSON", "Java", "JavaScript", "Markdown",
       "PHP", "Python", "React", "React/TypeScript", "Ruby", "Rust", "SCSS", "SQL",
       "Shell", "TypeScript", "Vue", "YAML" >>

\* sorted(technologies)
sorted(technologies) == SelectSeq(TechOrder, LAMBDA t : t \in technologies)

\* any(pattern in filename for pattern in exclude_patterns)
Excluded(filename) == \E pattern \in exclude_patterns : Contains(filename, pattern)

\* any(filename.endswith(ext) for ext in code_extensions)
EndsWithCodeExtension(filename) ==
    \E ext \in code_extensions : EndsWith(filename, <<".", ext>>)

\* filename.split('.')[-1].lower()
LastDot(filename) ==
    CHOOSE i \in 1..Len(filename) :
        filename[i] = "." /\ \A j \in (i + 1)..Len(filename) : filename[j] # "."

Extension(filename) ==
    [k \in 1..(Len(filename) - LastDot(filename)) |-> Lower(filename[LastDot(filename) + k])]

\* the technology the extension of the name stands for, if any
TechnologyOf(filename) ==
    IF "." \notin SeqRange(filename) THEN {}
    ELSE LET ext == Extension(filename)
         IN IF Len(ext) = 1 /\ ext[1] \in DOMAIN tech_map THEN {tech_map[ext[1]]} ELSE {}

\* the files kept without the filter on the exclude patterns
informative_files_unfiltered(files) == files

informative_files(files) == SelectSeq(files, LAMBDA f : ~Excluded(f.filename))

\* the files with a patch taken among the listed files only
files_with_patch_listed_only(informative) ==
    SelectSeq(PySlice(informative, 0, FileLimit),
              LAMBDA f : Truthy(f.patch) /\ EndsWithCodeExtension(f.filename))

files_with_patch(informative) ==
    SelectSeq(informative, LAMBDA f : Truthy(f.patch) /\ EndsWithCodeExtension(f.filename))

\* the slice without its limit
ListedFilesAll(informative) == informative

\* informative_files[:10]
ListedFiles(informative) == PySlice(informative, 0, FileLimit)

\* the technologies added in the loop over informative_files[:10]
Technologies(listed) == UNION {TechnologyOf(listed[k].filename) : k \in 1..Len(listed)}

\* The text returned is the sequence of its lines: k says which line of the
\* code wrote the line, p holds what it was formatted from.
Line(k, p) == [k |-> k, p |-> p]

\* f"  - {filename}: +{additions} -{deletions} ({status})"
FileLine(f) == Line("file", <<f.filename, f.additions, f.deletions, f.status>>)

\* line.startswith('+') and not line.startswith('+++')
IsAddedLine(line) == StartsWith(line, <<"+">>) /\ ~StartsWith(line, <<"+", "+", "+">>)

\* any(keyword in stripped for keyword in [...]) with stripped = line[1:].strip()
HasKeyword(line) == \E keyword \in keywords : Contains(StripBlanks(Tail(line)), keyword)

\* the loop over patch.split('\n'), with its break
RECURSIVE KeyLines(_, _)
KeyLines(lines, key_lines) ==
    IF lines = <<>> \/ Len(key_lines) >= KeyLineLimit THEN key_lines
    ELSE KeyLines(Tail(lines),
                  IF IsAddedLine(Head(lines)) /\ HasKeyword(Head(lines))
                  THEN Append(key_lines, Head(lines))
                  ELSE key_lines)

\* what the loop over files_with_patch[:5] appends for one file
KeyFileLines(f) ==
    <<FileLine(f)>>
    \o (IF Truthy(f.patch)
        THEN LET key_lines == KeyLines(f.patch.v, <<>>)
             IN [k \in 1..Len(key_lines) |-> Line("key_line", key_lines[k])]
        ELSE <<>>)

RECURSIVE KeyChanges(_)
KeyChanges(fs) == IF fs = <<>> THEN <<>> ELSE KeyFileLines(Head(fs)) \o KeyChanges(Tail(fs))

RECURSIVE SumOf(_, _)
SumOf(files, field) ==
    IF files = <<>> THEN 0 ELSE Head(files)[field] + SumOf(Tail(files), field)

\* the state taken from the record as it is
DerivedStateRaw(record) == GetOr(record.state, JStr(<<"unknown">>))

\* state = pr.get('state', 'unknown'), 'merged' if merged_at is set
DerivedState(record) ==
    IF Truthy(DictGet(GetOr(record.pull_request, EmptyDict), "merged_at", JNull))
    THEN JStr(<<"merged">>)
    ELSE GetOr(record.state, JStr(<<"unknown">>))

\* the base info
BaseLines(record) ==
    << Line("pr", <<record.number>>), Line("state", <<DerivedState(record)>>),
       Line("created", <<>>), Line("labels", <<>>), Line("comments", <<>>),
       Line("description", <<>>) >>

\* the test with "is not None" in the place of the truth value
FilesPresentNotNone(files) == files.t # "null"

\* if files:
FilesPresent(files) == Truthy(files)

\* the count taken over the surviving files
file_count_informative(files) == Len(informative_files(files))

\* file_count = len(files)
file_count(files) == Len(files)

\* the lines added under "if files:"
FilesSection(files) ==
    LET informative == informative_files(files)
        listed == ListedFiles(informative)
        technologies == Technologies(listed)
        with_patch == files_with_patch(informative)
    IN <<Line("blank", <<>>),
         Line("files_changed",
              <<file_count(files), SumOf(files, "additions"), SumOf(files, "deletions")>>)>>
       \o (IF technologies # {}
           THEN <<Line("technologies", sorted(technologies))>> ELSE <<>>)
       \o (IF listed = <<>> THEN <<Line("blank", <<>>)>>
           ELSE [k \in 1..Len(listed) |-> FileLine(listed[k])])
       \o (IF Len(informative) > FileLimit
           THEN <<Line("more_files", <<Len(informative) - FileLimit>>)>> ELSE <<>>)
       \o (IF with_patch # <<>>
           THEN <<Line("blank", <<>>), Line("key_changes", <<>>)>>
                \o KeyChanges(PySlice(with_patch, 0, PatchFileLimit))
           ELSE <<>>)

\* LocalPRLoader.compress_pr_data
compress_pr_data(record) ==
    IF CompressRaises(record) THEN Raises("TypeError")
    ELSE IF record.pull_request.t = "null" THEN Raises("AttributeError")
    ELSE LET files == GetOr(record.files, JList(<<>>))
         IN Returns(BaseLines(record)
                    \o (IF FilesPresent(files) THEN FilesSection(files.v) ELSE <<>>))

\* ---- the records tried

StemNames ==
    << "f1", "f2", "f3", "f4", "f5", "f6", "f7", "f8", "f9", "f10", "f11", "f12",
       "f13", "f14" >>

\* patches: more than three key lines among other lines; two key lines and
\* an added line that is a bare keyword; no key line
PatchMany ==
    << <<"+", "+", "+", " ", "b/f">>, <<"+", "import", " ", "os">>,
       <<" ", "def", " ", "old">>, <<"+", "x", " ", "=", " ", "1">>,
       <<"+", " ", " ", "def", " ", "run">>, <<"-", "import", " ", "sys">>,
       <<"+", "class", " ", "C">>, <<"+", "const", " ", "y">> >>

PatchTwo ==
    << <<"+", "y", " ", "=", " ", "2">>, <<"+", "@", "route">>, <<>>,
       <<"+", "import", " ">>, <<"+", "export", " ", "default">> >>

PatchNone == << <<"+", "+", "+", " ", "b/g">>, <<"+", "z">>, <<" ", "class", " ", "D">> >>

FileKinds == {"py", "ts", "js", "go", "md", "unknownext", "PY", "nodot", "lock", "node_modules"}

\* the i-th file of a record, of the given kind
MkFile(kind, i) ==
    LET stem == StemNames[i]
        filename ==
            CASE kind = "nodot" -> <<stem>>
              [] kind = "js" -> <<"src/", stem, ".", "js">>
              [] kind = "node_modules" -> <<"node_modules/", stem, ".", "js">>
              [] OTHER -> <<stem, ".", kind>>
        patch ==
            CASE kind \in {"py", "node_modules"} -> JStr(PatchMany)
              [] kind \in {"js", "md", "unknownext", "PY"} -> JStr(PatchTwo)
              [] kind = "go" -> JStr(PatchNone)
              [] kind = "ts" -> JNull
              [] OTHER -> JStr(<<>>)
    IN [filename |-> filename, status |-> "modified", additions |-> i, deletions |-> 1,
        patch |-> patch]

\* m files of one kind and then n of another
TwoRuns(a, m, b, n) == [i \in 1..(m + n) |-> MkFile(IF i <= m THEN a ELSE b, i)]

\* n files of two kinds in turn
Alternating(a, b, n) == [i \in 1..n |-> MkFile(IF i % 2 = 1 THEN a ELSE b, i)]

\* the lengths of the two runs: one of them is short
RunLengths ==
    { q \in (0..MaxFiles) \X (0..MaxFiles) : q[1] + q[2] <= MaxFiles /\ (q[1] <= 2 \/ q[2] <= 2) }

FileLists ==
    { TwoRuns(a, q[1], b, q[2]) : a \in FileKinds, b \in FileKinds, q \in RunLengths }
    \cup { Alternating(a, b, n) : a \in FileKinds, b \in FileKinds, n \in 0..MaxFiles }

MkRecord(labels, state, pull_request, files) ==
    [number |-> 1, labels |-> labels, state |-> state, pull_request |-> pull_request,
     files |-> files]

\* the records with the file lists, and the records with the shapes of the
\* state, pull_request, files and labels entries
CompressInputs ==
    { MkRecord("list", JStr(<<"open">>), Absent, JList(fs)) : fs \in FileLists }
    \cup { MkRecord(labels, state, pull, files) :
             labels \in {"list", "null"},
             state \in {Absent, JStr(<<"open">>), JStr(<<"closed">>)},
             pull \in {Absent, JNull, EmptyDict, JObj("merged_at" :> JNull),
                       JObj("merged_at" :> JStr(<<>>)),
                       JObj("merged_at" :> JStr(<<"2024-05-01T10:00:00Z">>))},
             files \in {Absent, JNull, JList(<<>>), JList(TwoRuns("py", 1, "py", 0)),
                        JList(TwoRuns("lock", 1, "lock", 0))} }

CompressInit ==
    /\ PipelineIdle
    /\ ParseIdle
    /\ PullIdle
    /\ EnrichIdle
    /\ pr \in CompressInputs
    /\ compressed = Pending
    /\ RequestIdle

\* a call of compress_pr_data on the record
Compress ==
    /\ compressed = Pending
    /\ compressed' = compress_pr_data(pr)
    /\ UNCHANGED <<pr, pipeline_vars, parse_vars, request_vars, pull_vars,
                   enrich_vars>>

CompressNext == Compress

SpecCompress == CompressInit /\ [][CompressNext]_vars

\* ------------------------------------- GitHubClient._make_request

\* max_retries = 3
max_retries == 3

\* the most requests.get calls of one call that are followed
MaxAnswers == 5

\* What requests.get gives: a response with its status code, the value of
\* its X-RateLimit-Remaining header (0 as well when the header is missing)
\* and whether the time of X-RateLimit-Reset is still ahead; or an
\* exception of requests (connection error, timeout).
Response(status, remaining, reset_ahead) ==
    [kind |-> "response", status |-> status, remaining |-> remaining,
     reset_ahead |-> reset_ahead]

TransportError ==
    [kind |-> "exception", status |-> 0, remaining |-> 0, reset_ahead |-> FALSE]

Answers ==
    { Response(200, rem, FALSE) : rem \in {0, 1} }
    \cup { Response(403, rem, ahead) : rem \in {0, 1}, ahead \in BOOLEAN }
    \cup { Response(st, 1, FALSE) : st \in {401, 404, 500} }
    \cup { TransportError }

\* _handle_rate_limit without the wait: no answer is taken as rate-limited
handle_rate_limit_never(response) == FALSE

\* _handle_rate_limit: true after it has slept until the reset time
handle_rate_limit(response) ==
    response.status = 403 /\ response.remaining = 0 /\ response.reset_ahead

\* response.raise_for_status() raises HTTPError
IsHTTPError(response) == response.status >= 400

\* the statuses with 404 retried
FatalStatusNo404(status) == status \in {401, 403}

\* the statuses the HTTPError clause raises GitHubAPIError for at once
FatalStatus(status) == status \in {401, 403, 404}

RequestInit ==
    /\ PipelineIdle
    /\ ParseIdle
    /\ CompressIdle
    /\ PullIdle
    /\ EnrichIdle
    /\ req_pc = "idle"
    /\ retry_count = 0
    /\ answers = <<>>
    /\ req_result = Pending

\* _make_request is called: retry_count = 0
MakeRequest ==
    /\ req_pc = "idle"
    /\ req_pc' = "loop"
    /\ retry_count' = 0
    /\ UNCHANGED <<answers, req_result, pipeline_vars, parse_vars, compress_vars,
                   pull_vars, enrich_vars>>

\* the retry counted, and GitHubAPIError raised once max_retries is reached
CountFailure ==
    /\ retry_count' = retry_count + 1
    /\ IF retry_count + 1 >= max_retries
       THEN req_pc' = "done" /\ req_result' = Raises("GitHubAPIError")
       ELSE UNCHANGED <<req_pc, req_result>>

\* one iteration of the while loop: requests.get and what follows it
Attempt ==
    /\ req_pc = "loop"
    /\ retry_count < max_retries
    /\ Len(answers) < MaxAnswers
    /\ \E answer \in Answers :
          /\ answers' = Append(answers, answer)
          /\ IF answer.kind = "exception" THEN CountFailure
             ELSE IF handle_rate_limit(answer)
                  THEN UNCHANGED <<req_pc, retry_count, req_result>>
             ELSE IF ~IsHTTPError(answer)
                  THEN /\ req_pc' = "done"
                       /\ req_result' = Returns(answer)
                       /\ UNCHANGED retry_count
             ELSE IF FatalStatus(answer.status)
                  THEN /\ req_pc' = "done"
                       /\ req_result' = Raises("GitHubAPIError")
                       /\ UNCHANGED retry_count
             ELSE CountFailure
    /\ UNCHANGED <<pipeline_vars, parse_vars, compress_vars, pull_vars,
                   enrich_vars>>

RequestNext ==
    \/ MakeRequest
    \/ Attempt

SpecRequest == RequestInit /\ [][RequestNext]_vars

\* ------------------- GitHubClient.get_pull_requests and what it calls

\* the pull requests of the repository have the numbers 1 .. MaxNumber
MaxNumber == 3

StateNames == {"all", "open", "closed", "merged"}

\* the state argument: one state as a string, or a list of states
StateArgs ==
    { JStr(<<s>>) : s \in StateNames }
    \cup { JList(<<>>) }
    \cup { JList(<<s>>) : s \in StateNames }
    \cup { JList(<<q[1], q[2]>>) :
              q \in { x \in StateNames \X StateNames : x[1] # x[2] } }

\* A creation timestamp is an ISO-8601 string; Python compares strings
\* character by character, which for the fixed-width fields of these
\* timestamps is the comparison field by field.  A timestamp is modelled
\* as the sequence of its fields (year, month, day); '' is <<>>.
Timestamps ==
    << <<2024, 3, 1>>, <<2024, 1, 15>>, <<2024, 3, 1>>, <<2023, 12, 31>> >>

TimestampOf(number) == Timestamps[((number - 1) % Len(Timestamps)) + 1]

\* An item of a search answer.  `found` stands for the rest of the item: it
\* tells the answers of two searches for the same pull request apart.
Item(number, found) ==
    [number |-> number, created_at |-> TimestampOf(number), found |-> found]

\* a < b for two Python strings given as field sequences
RECURSIVE StrLess(_, _)
StrLess(a, b) ==
    IF b = <<>> THEN FALSE
    ELSE IF a = <<>> THEN TRUE
    ELSE IF Head(a) # Head(b) THEN Head(a) < Head(b)
    ELSE StrLess(Tail(a), Tail(b))

\* isinstance(state, str): states = [state], else states = state
states_of(state) == IF state.t = "str" THEN <<state.v[1]>> ELSE state.v

\* the query with is:merged added to every state but "all"
query_parts_merged_any(state, merged_only) ==
    << <<"repo", "owner/repo">>, <<"type", "pr">>, <<"author", "author">> >>
    \o (IF state = "merged" THEN << <<"is", "merged">> >>
        ELSE IF state # "all"
             THEN << <<"is", state>> >>
                  \o (IF merged_only THEN << <<"is", "merged">> >> ELSE <<>>)
        ELSE <<>>)

\* _fetch_prs_by_state: query_parts, with no labels and no dates given.  A
\* qualifier k:x is the pair <<k, x>>.
query_parts(state, merged_only) ==
    << <<"repo", "owner/repo">>, <<"type", "pr">>, <<"author", "author">> >>
    \o (IF state = "merged" THEN << <<"is", "merged">> >>
        ELSE IF state # "all"
             THEN << <<"is", state>> >>
                  \o (IF merged_only /\ state = "closed"
                      THEN << <<"is", "merged">> >> ELSE <<>>)
        ELSE <<>>)

\* _fetch_prs_by_state: the query it builds and what its loop over the
\* pages comes to, which is the items of all pages or the GitHubAPIError of
\* _make_request
fetch_prs_by_state(state, merged_only, answer) ==
    [state |-> state, query |-> query_parts(state, merged_only),
     out |-> answer]

\* the loop over prs: a pull request is appended unless its number is seen
RECURSIVE AppendUnseen(_, _)
AppendUnseen(acc, items) ==
    IF items = <<>> THEN acc
    ELSE LET item == Head(items) IN
         AppendUnseen(
            IF item.number \notin acc.seen_numbers
            THEN [all_prs |-> Append(acc.all_prs, item),
                  seen_numbers |-> acc.seen_numbers \cup {item.number}]
            ELSE acc,
            Tail(items))

\* the sort key: x.get('created_at', '')
SortKey(item) ==
    IF "created_at" \in DOMAIN item THEN item.created_at ELSE <<>>

\* list.sort is stable, with reverse=True as well: items of equal keys keep
\* their order
RECURSIVE InsertNewestFirst(_, _)
InsertNewestFirst(item, sorted_prs) ==
    IF sorted_prs = <<>> THEN <<item>>
    ELSE IF StrLess(SortKey(Head(sorted_prs)), SortKey(item))
         THEN <<item>> \o sorted_prs
         ELSE <<Head(sorted_prs)>> \o InsertNewestFirst(item, Tail(sorted_prs))

RECURSIVE SortFrom(_, _)
SortFrom(sorted_prs, items) ==
    IF items = <<>> THEN sorted_prs
    ELSE SortFrom(InsertNewestFirst(Head(items), sorted_prs), Tail(items))

\* the list left as the loop built it
sort_newest_first_missing(all_prs) == all_prs

\* all_prs.sort(key=lambda x: x.get('created_at', ''), reverse=True)
sort_newest_first(all_prs) == SortFrom(<<>>, all_prs)

\* the for loop over the states, from state k on; answers[k] is what the
\* fetch of state k comes to
RECURSIVE FetchStates(_, _, _, _, _, _)
FetchStates(states, merged_only, fetch_answers, k, acc, log) ==
    IF k > Len(states)
    THEN [out |-> Returns(sort_newest_first(acc.all_prs)), fetches |-> log]
    ELSE LET f == fetch_prs_by_state(states[k], merged_only, fetch_answers[k])
         IN  IF f.out.exc # "none"
             THEN [out |-> f.out, fetches |-> Append(log, f)]
             ELSE FetchStates(states, merged_only, fetch_answers, k + 1,
                              AppendUnseen(acc, f.out.val), Append(log, f))

\* the _fetch_prs_by_state calls one get_pull_requests call makes at most
FetchCount(state) ==
    LET states == states_of(state) IN
    IF \E k \in 1..Len(states) : states[k] = "all" THEN 1 ELSE Len(states)

\* get_pull_requests: its outcome and the fetches it made
get_pull_requests(state, merged_only, fetch_answers) ==
    LET states == states_of(state) IN
    IF \E k \in 1..Len(states) : states[k] = "all"
    THEN LET f == fetch_prs_by_state("all", merged_only, fetch_answers[1])
         IN  [out |-> f.out, fetches |-> <<f>>]
    ELSE FetchStates(states, merged_only, fetch_answers, 1,
                     [all_prs |-> <<>>, seen_numbers |-> {}], <<>>)

\* ---- what the searches answer

\* the items of fetch number q: up to two pull requests
ItemLists(q) ==
    { <<>> }
    \cup { <<Item(a, q)>> : a \in 1..MaxNumber }
    \cup { <<Item(x[1], q), Item(x[2], q)>> :
              x \in { y \in (1..MaxNumber) \X (1..MaxNumber) : y[1] # y[2] } }

FetchAnswers(q) ==
    { Raises("GitHubAPIError") } \cup { Returns(l) : l \in ItemLists(q) }

\* the fewer answers that are followed in the loop over the repositories
RepoFetchAnswers(q) ==
    { Raises("GitHubAPIError"), Returns(<<>>),
      Returns(<<Item(2, q), Item(1, q)>>) }

RepoNameLists ==
    { <<>>, <<"r1">>, <<"r1", "r2">>, <<"r2", "r1">>, <<"r1", "r1">>,
      <<"r1", "r2", "r1">> }

PullArgs ==
    { [fn |-> "get_pull_requests", state |-> st, merged_only |-> m,
       repo_names |-> <<>>] : st \in StateArgs, m \in BOOLEAN }
    \cup
    { [fn |-> "get_pull_requests_from_multiple_repos", state |-> st,
       merged_only |-> m, repo_names |-> names] :
         st \in { JStr(<<"all">>), JStr(<<"closed">>),
                  JList(<<"open", "merged">>) },
         m \in BOOLEAN, names \in RepoNameLists }

\* ---- the calls

PullInit ==
    /\ PipelineIdle
    /\ ParseIdle
    /\ CompressIdle
    /\ RequestIdle
    /\ EnrichIdle
    /\ pull_pc = "idle"
    /\ pull_args \in PullArgs
    /\ fetches = <<>>
    /\ repo_calls = <<>>
    /\ repo_results = EmptyDict
    /\ pull_out = Pending

\* a call of get_pull_requests
GetPullRequests ==
    /\ pull_pc = "idle"
    /\ pull_args.fn = "get_pull_requests"
    /\ \E fetch_answers \in
            { a \in [1..FetchCount(pull_args.state) ->
                        UNION { FetchAnswers(q) : q \in 1..2 }] :
                \A q \in DOMAIN a : a[q] \in FetchAnswers(q) } :
          LET r == get_pull_requests(pull_args.state, pull_args.merged_only,
                                     fetch_answers)
          IN  /\ pull_out' = r.out
              /\ fetches' = r.fetches
    /\ pull_pc' = "done"
    /\ UNCHANGED <<pull_args, repo_calls, repo_results>>
    /\ UNCHANGED <<pipeline_vars, parse_vars, compress_vars, request_vars,
                   enrich_vars>>

\* get_pull_requests_from_multiple_repos is called: results = {}
MultipleRepos ==
    /\ pull_pc = "idle"
    /\ pull_args.fn = "get_pull_requests_from_multiple_repos"
    /\ pull_pc' = "repos"
    /\ repo_results' = EmptyDict
    /\ UNCHANGED <<pull_args, fetches, repo_calls, pull_out>>
    /\ UNCHANGED <<pipeline_vars, parse_vars, compress_vars, request_vars,
                   enrich_vars>>

\* the try statement with the except clause leaving results alone
repo_entry_none_on_error(dict, repo_name, out) ==
    IF out.exc = "none" THEN DictSet(dict, repo_name, JList(out.val)) ELSE dict

\* the try statement of the loop: results[repo_name] = prs, or [] on a
\* GitHubAPIError
repo_entry(dict, repo_name, out) ==
    IF out.exc = "none" THEN DictSet(dict, repo_name, JList(out.val))
    ELSE DictSet(dict, repo_name, JList(<<>>))

\* one iteration of the loop over repo_names
FetchRepo ==
    /\ pull_pc = "repos"
    /\ Len(repo_calls) < Len(pull_args.repo_names)
    /\ LET repo_name == pull_args.repo_names[Len(repo_calls) + 1] IN
       \E fetch_answers \in
            { a \in [1..FetchCount(pull_args.state) ->
                        UNION { RepoFetchAnswers(q) : q \in 1..2 }] :
                \A q \in DOMAIN a : a[q] \in RepoFetchAnswers(q) } :
          LET r == get_pull_requests(pull_args.state, pull_args.merged_only,
                                     fetch_answers)
          IN  /\ repo_results' = repo_entry(repo_results, repo_name, r.out)
              /\ repo_calls' = Append(repo_calls,
                                      [repo_name |-> repo_name, out |-> r.out])
              /\ fetches' = r.fetches
    /\ UNCHANGED <<pull_pc, pull_args, pull_out>>
    /\ UNCHANGED <<pipeline_vars, parse_vars, compress_vars, request_vars,
                   enrich_vars>>

\* return results
ReturnResults ==
    /\ pull_pc = "repos"
    /\ Len(repo_calls) = Len(pull_args.repo_names)
    /\ pull_pc' = "done"
    /\ pull_out' = Returns(repo_results)
    /\ UNCHANGED <<pull_args, fetches, repo_calls, repo_results>>
    /\ UNCHANGED <<pipeline_vars, parse_vars, compress_vars, request_vars,
                   enrich_vars>>

PullNext ==
    \/ GetPullRequests
    \/ MultipleRepos
    \/ FetchRepo
    \/ ReturnResults

SpecPull == PullInit /\ [][PullNext]_vars

\* ------------------------------------------------------- PREnricher

\* the most calls of enrich_pr_file and enrich_directory that are followed
MaxPasses == 2

\* if patch and changes < 500: simplified['patch'] = patch[:1500]
PatchChangesLimit == 500

PatchCharLimit == 1500

\* a string of n characters, of which only the length matters: a patch
Text(n) == [t |-> "text", v |-> <<n>>]

\* A file on disk: its text, as the JSON value it is the text of (NotJSON
\* when json.load raises on it) and the way it is laid out, "as_found" or
\* "indent2" once json.dump(..., indent=2) has written it.
NotJSON == [t |-> "notjson", v |-> <<>>]

Document(format, doc) == [format |-> format, doc |-> doc]

\* json.load(f)
json_load(content) ==
    IF content.doc.t = "notjson" THEN Raises("JSONDecodeError")
    ELSE Returns(content.doc)

\* json.dump(pr_data, f, indent=2, ensure_ascii=False) on the opened file
json_dump(pr_data) == Document("indent2", pr_data)

\* what get_pr_files returns for one file of the pull request
ApiFile(filename, changes, patch) ==
    JObj(("sha" :> JStr(<<"abc">>))
         @@ ("filename" :> JStr(<<filename>>))
         @@ ("status" :> JStr(<<"modified">>))
         @@ ("additions" :> JNum(changes))
         @@ ("deletions" :> JNum(0))
         @@ (IF changes = 0 THEN [k \in {} |-> JNull]
             ELSE ("changes" :> JNum(changes)))
         @@ (IF patch.t = "absent" THEN [k \in {} |-> JNull]
             ELSE ("patch" :> patch)))

\* a string is true unless it is empty
TextTruthy(x) == x.t = "text" /\ x.v[1] > 0

\* the body of "for file in files": the simplified entry
simplified(file) ==
    LET base == JObj(("filename" :> DictGet(file, "filename", JNull))
                     @@ ("status" :> DictGet(file, "status", JNull))
                     @@ ("additions" :> DictGet(file, "additions", JNum(0)))
                     @@ ("deletions" :> DictGet(file, "deletions", JNum(0)))
                     @@ ("changes" :> DictGet(file, "changes", JNum(0))))
        patch == DictGet(file, "patch", JNull)
        changes == DictGet(file, "changes", JNum(0))
    IN  IF TextTruthy(patch) /\ changes.v[1] < PatchChangesLimit
        THEN DictSet(base, "patch", Text(Min(patch.v[1], PatchCharLimit)))
        ELSE base

simplified_files(files) == [k \in DOMAIN files |-> simplified(files[k])]

\* the test with the emptiness of the list left out
has_files_key(pr_data) ==
    LET has == PyIn("files", pr_data) IN
    IF has = "TypeError" THEN "TypeError"
    ELSE IF has = "no" THEN "no"
    ELSE IF ~IsDict(pr_data) THEN "TypeError"
    ELSE "yes"

\* 'files' in pr_data and pr_data['files']: "yes", "no", or the exception
has_files(pr_data) ==
    LET has == PyIn("files", pr_data) IN
    IF has = "TypeError" THEN "TypeError"
    ELSE IF has = "no" THEN "no"
    ELSE IF ~IsDict(pr_data) THEN "TypeError"
    ELSE IF Truthy(pr_data.v["files"]) THEN "yes" ELSE "no"

\* the test of the number left out
has_number_always(pr_number) == TRUE

\* "if not pr_number" is not taken
has_number(pr_number) == Truthy(pr_number)

\* get_pr_files was not called
Unasked == Raises("unasked")

\* enrich_pr_file ends in its except clause, or at a "return False"
Failure(requested, answer, caught) ==
    [ret |-> FALSE, requested |-> requested, answer |-> answer,
     wrote |-> FALSE, content |-> JNull, caught |-> caught]

\* PREnricher.enrich_pr_file on a file with this content, answer being what
\* get_pr_files does if it is called: the value returned, whether the
\* request was made, whether the file was written and with what, and the
\* exception the except clause caught
enrich_pr_file(content, answer) ==
    LET loaded == json_load(content)
        pr_data == loaded.val
        skip == has_files(pr_data)
        pr_number == DictGet(pr_data, "number", JNull)
    IN  IF loaded.exc # "none" THEN Failure(FALSE, Unasked, loaded.exc)
        ELSE IF skip = "TypeError" THEN Failure(FALSE, Unasked, "TypeError")
        ELSE IF skip = "yes"
             THEN IF HasKey(pr_data, "number")
                  THEN [ret |-> TRUE, requested |-> FALSE, answer |-> Unasked,
                        wrote |-> FALSE, content |-> JNull, caught |-> "none"]
                  ELSE Failure(FALSE, Unasked, "KeyError")
        ELSE IF ~IsDict(pr_data) THEN Failure(FALSE, Unasked, "AttributeError")
        ELSE IF ~has_number(pr_number) THEN Failure(FALSE, Unasked, "none")
        ELSE IF answer.exc # "none" THEN Failure(TRUE, answer, answer.exc)
        ELSE LET files == simplified_files(answer.val) IN
             [ret |-> TRUE, requested |-> TRUE, answer |-> answer, wrote |-> TRUE,
              content |-> json_dump(DictSet(DictSet(pr_data, "files", JList(files)),
                                            "files_count", JNum(Len(files)))),
              caught |-> "none"]

\* ---- enrich_directory

\* the names matched by directory.glob("*.json")
Globbed(names) == { n \in names : EndsWith(n, <<".json">>) }

\* the names of the directory taken without the test of the prefix
found_pr_files_unfiltered(names) == Globbed(names)

\* pr_files: the names matched that start with "pr_"
found_pr_files(names) == { n \in Globbed(names) : StartsWith(n, <<"pr_">>) }

\* current_repo of an iteration: repo, or parts[-2] of the path of the file
current_repo(repo, parts) ==
    IF Truthy(repo) THEN repo
    ELSE IF Len(parts) >= 2 THEN JStr(<<parts[Len(parts) - 1]>>)
    ELSE repo

\* stats[key] += 1
Counted(st, key) == [st EXCEPT ![key] = @ + 1]

\* The body of the loop for one file: what it is counted as, and what the
\* call of enrich_pr_file did if it was made.
visit_file(content, repo, parts, answer) ==
    LET loaded == json_load(content)
        already == loaded.exc = "none" /\ IsDict(loaded.val)
                   /\ has_files(loaded.val) = "yes"
        e == enrich_pr_file(content, answer)
    IN  IF ~Truthy(current_repo(repo, parts))
        THEN [counted |-> "failed", called |-> FALSE, e |-> Failure(FALSE, Unasked, "none")]
        ELSE IF already
        THEN [counted |-> "skipped", called |-> FALSE, e |-> Failure(FALSE, Unasked, "none")]
        ELSE [counted |-> IF e.ret THEN "enriched" ELSE "failed",
              called |-> TRUE, e |-> e]

\* ---- the directories and the answers tried

PRFile(number) == <<"pr_", number, ".json">>

\* what else lies in the directory
OtherFiles == { <<"notes", ".json">>, <<"pr_", "3", ".txt">> }

StoredFile == simplified(ApiFile("a.py", 10, Text(100)))

\* what a PR file holds at the start
Contents(number) ==
    { Document("as_found", doc) : doc \in
        { NotJSON,
          JList(<<>>),
          JObj("title" :> JStr(<<"t">>)),
          JObj(("number" :> JNull) @@ ("title" :> JStr(<<"t">>))),
          JObj(("number" :> JNum(number)) @@ ("title" :> JStr(<<"t">>))),
          JObj(("number" :> JNum(number)) @@ ("files" :> JList(<<>>))
               @@ ("files_count" :> JNum(0))),
          JObj(("files" :> JList(<<StoredFile>>)) @@ ("files_count" :> JNum(1))) } }
    \cup { json_dump(JObj(("number" :> JNum(number))
                          @@ ("files" :> JList(<<StoredFile>>))
                          @@ ("files_count" :> JNum(1)))) }

Others == [n \in OtherFiles |-> Document("as_found", NotJSON)]

Directories ==
    { Others }
    \cup { (PRFile("1") :> c) @@ Others : c \in Contents(1) }
    \cup { (PRFile("1") :> c1) @@ (PRFile("2") :> c2) :
             c1 \in Contents(1), c2 \in Contents(2) }

\* what get_pr_files does: it raises the GitHubAPIError of _make_request, or
\* returns the files of the pull request
FileAnswers ==
    { Raises("GitHubAPIError"),
      Returns(<<>>),
      Returns(<< ApiFile("a.py", 10, Text(100)),
                 ApiFile("b.bin", 0, Absent),
                 ApiFile("c.py", 600, Text(2000)),
                 ApiFile("d.py", 100, Text(2000)) >>) }

\* the repo argument and the path of the directory
DirectoryArgs ==
    { [repo |-> JStr(<<"r">>), directory |-> <<"out", "org", "r">>],
      [repo |-> JNull, directory |-> <<"out", "org", "r">>],
      [repo |-> JNull, directory |-> <<>>] }

\* the orders directory.glob may list the files in
Orderings(S) == { l \in [1..Cardinality(S) -> S] : SeqRange(l) = S }

EnrichInit ==
    /\ PipelineIdle
    /\ ParseIdle
    /\ CompressIdle
    /\ RequestIdle
    /\ PullIdle
    /\ disk \in Directories
    /\ fetched = [n \in DOMAIN disk |-> 0]
    /\ enrich_pc = "idle"
    /\ enrich_args = <<>>
    /\ pr_files = <<>>
    /\ stats = <<>>
    /\ visit = <<>>
    /\ passes = 0

NoCallRunning == enrich_pc \in {"idle", "returned"}

\* the disk and the requests after a call of enrich_pr_file
Enriched(name, e) ==
    /\ disk' = IF e.wrote THEN [disk EXCEPT ![name] = e.content] ELSE disk
    /\ fetched' = IF e.requested THEN [fetched EXCEPT ![name] = @ + 1]
                  ELSE fetched

\* a call of enrich_pr_file on one of the PR files
EnrichPrFile ==
    /\ NoCallRunning
    /\ passes < MaxPasses
    /\ \E name \in found_pr_files(DOMAIN disk) : \E answer \in FileAnswers :
          LET e == enrich_pr_file(disk[name], answer) IN
          /\ Enriched(name, e)
          /\ visit' = [fn |-> "enrich_pr_file", file |-> name, called |-> TRUE,
                       counted |-> "none", ret |-> e.ret,
                       requested |-> e.requested, answer |-> e.answer,
                       wrote |-> e.wrote, caught |-> e.caught]
    /\ passes' = passes + 1
    /\ enrich_pc' = "returned"
    /\ enrich_args' = <<>>
    /\ stats' = <<>>
    /\ UNCHANGED pr_files
    /\ UNCHANGED <<pipeline_vars, parse_vars, compress_vars, request_vars,
                   pull_vars>>

\* enrich_directory on a directory without PR files: "if not pr_files"
EnrichDirectoryEmpty ==
    /\ NoCallRunning
    /\ passes < MaxPasses
    /\ found_pr_files(DOMAIN disk) = {}
    /\ \E args \in DirectoryArgs : enrich_args' = args
    /\ stats' = [total |-> 0, enriched |-> 0, skipped |-> 0, failed |-> 0]
    /\ enrich_pc' = "returned"
    /\ passes' = passes + 1
    /\ visit' = <<>>
    /\ UNCHANGED <<disk, fetched, pr_files>>
    /\ UNCHANGED <<pipeline_vars, parse_vars, compress_vars, request_vars,
                   pull_vars>>

\* enrich_directory up to its for loop
EnrichDirectory ==
    /\ NoCallRunning
    /\ passes < MaxPasses
    /\ found_pr_files(DOMAIN disk) # {}
    /\ \E args \in DirectoryArgs : enrich_args' = args
    /\ \E order \in Orderings(found_pr_files(DOMAIN disk)) :
          /\ pr_files' = order
          /\ stats' = [total |-> Len(order), enriched |-> 0, skipped |-> 0,
                       failed |-> 0]
    /\ enrich_pc' = "loop"
    /\ passes' = passes + 1
    /\ visit' = <<>>
    /\ UNCHANGED <<disk, fetched>>
    /\ UNCHANGED <<pipeline_vars, parse_vars, compress_vars, request_vars,
                   pull_vars>>

\* one iteration of "for pr_file in pr_files"
VisitFile ==
    /\ enrich_pc = "loop"
    /\ pr_files # <<>>
    /\ LET name == Head(pr_files) IN
       \E answer \in FileAnswers :
          LET r == visit_file(disk[name], enrich_args.repo,
                              Append(enrich_args.directory, name), answer)
          IN  /\ Enriched(name, r.e)
              /\ stats' = Counted(stats, r.counted)
              /\ visit' = [fn |-> "enrich_directory", file |-> name,
                           called |-> r.called, counted |-> r.counted,
                           ret |-> r.e.ret, requested |-> r.e.requested,
                           answer |-> r.e.answer, wrote |-> r.e.wrote,
                           caught |-> r.e.caught]
    /\ pr_files' = Tail(pr_files)
    /\ UNCHANGED <<enrich_pc, enrich_args, passes>>
    /\ UNCHANGED <<pipeline_vars, parse_vars, compress_vars, request_vars,
                   pull_vars>>

\* return stats
ReturnStats ==
    /\ enrich_pc = "loop"
    /\ pr_files = <<>>
    /\ enrich_pc' = "returned"
    /\ UNCHANGED <<disk, fetched, enrich_args, pr_files, stats, visit, passes>>
    /\ UNCHANGED <<pipeline_vars, parse_vars, compress_vars, request_vars,
                   pull_vars>>

EnrichNext ==
    \/ EnrichPrFile
    \/ EnrichDirectoryEmpty
    \/ EnrichDirectory
    \/ VisitFile
    \/ ReturnStats

SpecEnrich == EnrichInit /\ [][EnrichNext]_vars

\* ---------------------------------------------------------- the claims

Last(s) == s[Len(s)]

CeilDiv(a, b) == (a + b - 1) \div b

\* the call is analyze_prs with a non-empty list of field names and records
\* that compress_pr_data accepts
UsableInputs ==
    /\ fields.t = "list"
    /\ fields.v # <<>>
    /\ \A k \in 1..Len(prs) : prs[k].labels = "list"

\* the text of the reply carries the JSON value x
Carries(o, x) == o.kind = "reply" /\ o.content \in {Bare(x), Fenced(x)}

\* the model invocation raised, or its text is no JSON
Failed(o, values) == o.kind = "raise" \/ (o.kind = "reply" /\ ~\E x \in values : Carries(o, x))

\* r is {"fields": {f: [] for every requested f}, "partial_summary": ""}
IsEmptyBatchResult(r) ==
    /\ IsDict(r)
    /\ DOMAIN r.v = {"fields", "partial_summary"}
    /\ r.v["partial_summary"] = JStr(<<>>)
    /\ IsDict(r.v["fields"])
    /\ DOMAIN r.v["fields"].v = SeqRange(fields.v)
    /\ \A f \in SeqRange(fields.v) : r.v["fields"].v[f] = JList(<<>>)

\* r is the batch result a model outcome stands for: the JSON value of the
\* reply, or the empty batch result
Produced(o, r) ==
    IF \E x \in BatchValues : Carries(o, x) THEN Carries(o, r) ELSE IsEmptyBatchResult(r)

C1_Step ==
    (pc = "loop" /\ batch_size > 0 /\ UsableInputs) =>
        IF Len(batch_results) < Len(batches)
        THEN /\ pc' = "loop"
             /\ calls' = Append(calls, "batch")
             /\ Len(batch_results') = Len(batch_results) + 1
             /\ SubSeq(batch_results', 1, Len(batch_results)) = batch_results
             /\ Produced(last_outcome', Last(batch_results'))
        ELSE /\ pc' = "done"
             /\ batch_results' = batch_results
             /\ Len(batch_results) = CeilDiv(Len(prs), batch_size)
             /\ raised_in' # "_analyze_batch"

\* C1: for a non-empty record list, a batch size n > 0 and any model outcome
\* per batch, every iteration of the loop of analyze_prs appends the result of
\* the next batch (the reply's value, or the empty batch result when the call
\* failed or the reply is no JSON) and goes on with the following batch; the
\* aggregation starts with exactly one result per batch, in batch order.
C1_OneResultPerBatch == [][C1_Step]_vars

\* 3 records with n = 2: two batches of sizes 2 and 1; the first batch failed,
\* the second one was summarized all the same, and the aggregator ran
C1_Witness ==
    /\ pc = "done" /\ entry = "analyze_prs" /\ UsableInputs
    /\ Len(prs) = 3 /\ batch_size = 2
    /\ Len(batches) = 2 /\ Len(batches[1]) = 2 /\ Len(batches[2]) = 1
    /\ Len(batch_results) = 2
    /\ IsEmptyBatchResult(batch_results[1])
    /\ batch_results[2] \in BatchValues
    /\ agg_path # "none"

\* the aggregation returned a value
AggReturned == pc = "done" /\ agg_path \in {"model", "manual"} /\ result.exc = "none"

\* C2 (as claimed): the fields mapping of the result of _aggregate_results has
\* exactly the requested keys, each mapped to a list, on the model-assisted
\* path whatever JSON the model returned and on the fallback path (stated
\* for the runs with a batch size n > 0).
C2_Claim ==
    (AggReturned /\ batch_size > 0) =>
        /\ IsDict(result.val)
        /\ HasKey(result.val, "fields")
        /\ IsDict(result.val.v["fields"])
        /\ DOMAIN result.val.v["fields"].v = SeqRange(fields.v)
        /\ \A f \in SeqRange(fields.v) : IsList(result.val.v["fields"].v[f])

\* C3 (as claimed): analyze_prs always returns a mapping with fields and
\* summary, whatever the batches and the aggregation call did; no exception
\* escapes from _aggregate_results or _manual_aggregation.
C3_Claim ==
    (pc = "done" /\ entry = "analyze_prs" /\ batch_size > 0 /\ UsableInputs) =>
        /\ raised_in \notin {"_aggregate_results", "_manual_aggregation"}
        /\ result.exc = "none"
        /\ IsDict(result.val)
        /\ HasKey(result.val, "fields")
        /\ HasKey(result.val, "summary")

\* C4: when the model invocation of a batch raises or returns text that is
\* no JSON, _analyze_batch returns the empty batch result (every requested
\* field mapped to [], partial_summary "") and does not raise: an exception
\* leaves _analyze_batch only before the model is invoked.
C4_SummarizerResilience ==
    /\ (pc = "loop" /\ calls # <<>> /\ Failed(last_outcome, BatchValues))
          => IsEmptyBatchResult(Last(batch_results))
    /\ pc = "loop" => Len(calls) = Len(batch_results)
    /\ raised_in = "_analyze_batch" => Len(calls) = Len(batch_results)

\* the reply of the second batch is no JSON: its result is the empty one
C4_Witness ==
    /\ pc = "loop"
    /\ Len(calls) = 2
    /\ last_outcome = Reply(NonJSON)
    /\ IsEmptyBatchResult(batch_results[2])
    /\ fields = JList(<<"F1", "F2">>)

\* C5 (as claimed): no error of a single batch leaves _analyze_batch, wherever
\* in _analyze_batch it occurs.
C5_Claim == raised_in # "_analyze_batch"

\* create_batches(prs, n) gave these batches
BatchingLaw(bs, list, n) ==
    /\ Len(bs) = CeilDiv(Len(list), n)
    /\ \A k \in 1..Len(bs) :
          /\ Len(bs[k]) = IF k < Len(bs) THEN n
                          ELSE IF Len(list) % n = 0 THEN n ELSE Len(list) % n
          /\ \A j \in 1..Len(bs[k]) : bs[k][j] = list[(k - 1) * n + j]
    /\ \A p \in 1..Len(list) : \E k \in 1..Len(bs) : \E j \in 1..Len(bs[k]) : (k - 1) * n + j = p

\* C6: for a list of length L and n > 0, create_batches raises nothing and
\* returns ceil(L/n) batches, all of length n except the last (L mod n, or n),
\* each a contiguous slice, which in order make up the input again; the empty
\* list gives the empty sequence.
C6_Batching ==
    (pc # "idle" /\ batch_size > 0) =>
        /\ raised_in # "create_batches"
        /\ BatchingLaw(batches, prs, batch_size)
        /\ (entry = "create_batches" /\ prs = <<>>) => result = Returns(JList(<<>>))

\* a direct call with 3 records and n = 2: a batch of 2 and the remainder
C6_Witness ==
    /\ pc = "done" /\ entry = "create_batches"
    /\ Len(prs) = 3 /\ batch_size = 2
    /\ result.exc = "none"
    /\ Len(batches) = 2 /\ Len(batches[2]) = 1

\* the aggregation model was called
AggCalled == pc = "done" /\ calls # <<>> /\ Last(calls) = "agg"

\* the post-processing of _aggregate_results runs through on value x: x is an
\* object whose fields entry is absent, a mapping, or a list or string that
\* holds every requested name
PostProcessCompletes(x) ==
    /\ IsDict(x)
    /\ LET rf == DictGet(x, "fields", EmptyDict)
       IN \/ IsDict(rf)
          \/ /\ rf.t \in {"list", "str"}
             /\ \A f \in SeqRange(fields.v) : PyIn(f, rf) = "yes"

\* C7 (as claimed): the fallback path is entered when the aggregation call
\* fails or its output is no JSON, and not for any other exception raised
\* after the output was parsed (stated for the runs with a batch size n > 0).
C7_Claim ==
    (AggCalled /\ batch_size > 0 /\ agg_path = "manual") => TryParse(last_outcome).exc # "none"

\* C7 (amended): the fallback path is entered when the aggregation call fails
\* or its output is no JSON, and also for every other exception raised after
\* the output was parsed (the value is no object, or its fields entry is
\* neither a mapping nor a container of every requested name); the model path
\* is taken exactly when the post-processing runs through.
C7_FallbackEntry ==
    AggCalled =>
        /\ agg_path \in {"model", "manual"}
        /\ raised_in # "_aggregate_results"
        /\ agg_path = "model" <=>
              \E x \in AggValues : Carries(last_outcome, x) /\ PostProcessCompletes(x)

\* the aggregation reply parsed to a JSON list, and the fallback merged
C7_Witness ==
    /\ AggCalled
    /\ last_outcome = Reply(Bare(JList(<<>>)))
    /\ agg_path = "manual"
    /\ result.exc = "none"

\* the fallback returned a value
ManualReturned == pc = "done" /\ agg_path = "manual" /\ result.exc = "none"

\* the entries batch result r holds for field f
Entries(r, f) ==
    IF IsDict(r) /\ HasKey(r, "fields") /\ IsDict(r.v["fields"]) /\ HasKey(r.v["fields"], f)
    THEN SeqRange(r.v["fields"].v[f].v)
    ELSE {}

\* C8: the merged list of _manual_aggregation for a requested field holds
\* each distinct value once, and its values are the union of the entries the
\* batch results hold for the field (none for a batch result without the
\* field or without a fields mapping); fields not requested are dropped.
C8_FallbackMerge ==
    ManualReturned =>
        /\ DOMAIN result.val.v["fields"].v = SeqRange(fields.v)
        /\ \A f \in SeqRange(fields.v) :
              LET merged == result.val.v["fields"].v[f].v
              IN /\ Cardinality(SeqRange(merged)) = Len(merged)
                 /\ SeqRange(merged) =
                       UNION {Entries(batch_results[k], f) : k \in 1..Len(batch_results)}

\* "X" is an entry of F1 in two batch results, one of which has a field that
\* was not requested, and a third batch result has no fields mapping
C8_Witness ==
    /\ ManualReturned
    /\ Len(batch_results) = 3
    /\ KeyStr("X") \in Entries(batch_results[1], "F1")
    /\ KeyStr("X") \in Entries(batch_results[2], "F1")
    /\ HasKey(batch_results[2].v["fields"], "Extra")
    /\ ~HasKey(batch_results[3], "fields")
    /\ Len(result.val.v["fields"].v["F1"].v) = 2

\* the positions of the batch results with a non-empty partial summary
SummaryPositions == {k \in 1..Len(batch_results) :
                        /\ HasKey(batch_results[k], "partial_summary")
                        /\ batch_results[k].v["partial_summary"].v # <<>>}

\* C9: the summary of _manual_aggregation is the non-empty partial summaries
\* in batch order with one space between two of them, empty and missing ones
\* adding nothing; without any it is "Analysis completed successfully.".
C9_FallbackSummary ==
    ManualReturned =>
        LET text == result.val.v["summary"].v
            n == Cardinality(SummaryPositions)
            \* the batch of the i-th non-empty partial summary
            pos(i) == CHOOSE k \in SummaryPositions :
                         Cardinality({j \in SummaryPositions : j < k}) = i - 1
        IN IF n = 0 THEN text = DefaultSummary
           ELSE /\ Len(text) = 2 * n - 1
                /\ \A i \in 1..n : <<text[2 * i - 1]>> = batch_results[pos(i)].v["partial_summary"].v
                /\ \A i \in 1..(n - 1) : text[2 * i] = " "

\* partial summaries "a", none, "b": the summary is "a b"
C9_Witness ==
    /\ ManualReturned
    /\ Len(batch_results) = 3
    /\ SummaryPositions = {1, 3}
    /\ result.val.v["summary"] = JStr(<<"a", " ", "b">>)

\* C10 (as claimed): analyze_prs called with an empty record list, or with an
\* absent or empty field list, returns a trivial result early, calls the model
\* never and raises nothing (stated for the runs with a batch size n > 0).
C10_Claim ==
    (pc = "done" /\ entry = "analyze_prs" /\ batch_size > 0
        /\ (prs = <<>> \/ fields.t = "null" \/ fields.v = <<>>)) =>
        /\ result.exc = "none"
        /\ calls = <<>>

\* C11: the batches are summarized one at a time and in input order: the
\* model call of a batch is made only once the results of all batches before
\* it have been appended, it is made for the next batch of the list, and no
\* further call is made before its own result is appended; the model call of
\* the aggregation is made only once there is a result for every batch, and
\* for these results.
C11_Step ==
    calls' # calls =>
        /\ Len(calls') = Len(calls) + 1
        /\ Len(calls) = Len(batch_results)
        /\ Last(calls') = "batch" =>
              /\ Len(batch_results) < Len(batches)
              /\ Last(call_args') = batches[Len(batch_results) + 1]
              /\ \/ batch_results' # batch_results
                    /\ Len(batch_results') = Len(calls')
                 \/ pc' = "done" /\ raised_in' = "_analyze_batch"
        /\ Last(calls') = "agg" =>
              /\ Len(batch_results) = Len(batches)
              /\ \A i \in 1..Len(calls) : calls[i] = "batch"
              /\ Last(call_args') = batch_results

C11_SequentialRun == [][C11_Step]_vars

C11_Witness ==
    /\ pc = "done"
    /\ Len(batches) = 2
    /\ batches[1] # batches[2]
    /\ calls = <<"batch", "batch", "agg">>
    /\ call_args = <<batches[1], batches[2], batch_results>>

\* what the claim and the post-processing step of the specification describe
\* for a parsed object x and the requested names: a fields mapping is
\* created if missing, and each requested name absent from it is added with
\* an empty list
WithRequestedFields(x, names) ==
    LET rf == DictGet(x, "fields", EmptyDict)
    IN DictSet(x, "fields",
               JObj([f \in DOMAIN rf.v \cup names |->
                       IF f \in DOMAIN rf.v THEN rf.v[f] ELSE JList(<<>>)]))

\* C19 as stated (for the runs with a batch size n > 0): when the aggregation
\* reply parses to a JSON object, _aggregate_results returns that object
\* with a fields mapping created if missing and each absent requested field
\* added as an empty list, and everything the model returned unchanged.
C19_Claim ==
    (AggCalled /\ batch_size > 0) =>
        \A x \in AggValues :
            (Carries(last_outcome, x) /\ IsDict(x)) =>
                /\ agg_path = "model"
                /\ result.exc = "none"
                /\ IsDict(result.val.v["fields"])
                /\ result.val = WithRequestedFields(x, SeqRange(fields.v))

\* C19, amended: when the aggregation reply parses to a JSON object whose
\* fields entry is absent or a mapping, _aggregate_results returns the
\* object with the fields mapping created if missing and each absent
\* requested field added as an empty list, the entries the model returned
\* (requested or not, lists or not) and every other key unchanged; an object
\* whose fields entry is a list or a string holding every requested name is
\* returned exactly as the model gave it; for every other object (fields
\* null or a number, or a list or string lacking a requested name) the
\* post-processing raises and the result of the manual merge is returned.
C19_ModelPath ==
    AggCalled =>
        \A x \in AggValues :
            (Carries(last_outcome, x) /\ IsDict(x)) =>
                LET rf == DictGet(x, "fields", EmptyDict)
                IN IF IsDict(rf)
                   THEN /\ agg_path = "model"
                        /\ result = Returns(WithRequestedFields(x, SeqRange(fields.v)))
                   ELSE IF PostProcessCompletes(x)
                   THEN /\ agg_path = "model"
                        /\ result = Returns(x)
                   ELSE agg_path = "manual"

C19_Witness ==
    /\ AggCalled
    /\ agg_path = "model"
    /\ fields = JList(<<"F1", "F2">>)
    /\ \E x \in AggValues :
          /\ Carries(last_outcome, x)
          /\ IsDict(x)
          /\ HasKey(x, "fields")
          /\ IsDict(x.v["fields"])
          /\ DOMAIN x.v["fields"].v = {"F1", "Extra"}
          /\ result.val.v["fields"].v["F1"] = x.v["fields"].v["F1"]
          /\ result.val.v["fields"].v["F2"] = JList(<<>>)
          /\ result.val.v["summary"] = x.v["summary"]

\* the reply has been parsed
Parsed == parse_out # Pending

\* C12 as stated: for any JSON text J, the reply formed by J with or without
\* an opening fence, the fence with or without a language tag, and with or
\* without a closing fence, parses to the same value as J alone.
C12_Claim ==
    Parsed =>
        \A x \in JsonValues :
            reply_text \in Wrapped(OpeningsJson \cup OpeningsOtherTag, Bare(x))
                => parse_out = json_loads(Bare(x))

\* C12, amended: the same with the language tag json only: the reply formed
\* by J with or without an opening fence, the fence bare or tagged json,
\* and with or without a closing fence, parses to the value of J alone; with
\* any other language tag after the opening fence the parse fails with
\* JSONDecodeError, as it does for text that is not JSON.
C12_FenceStripping ==
    Parsed =>
        /\ \A x \in JsonValues :
              /\ reply_text \in Wrapped(OpeningsJson, Bare(x))
                    => parse_out = Returns(x) /\ parse_out = json_loads(Bare(x))
              /\ reply_text \in Wrapped(OpeningsOtherTag, Bare(x))
                    => parse_out = Raises("JSONDecodeError")
        /\ reply_text \in Wrapped(OpeningsJson \cup OpeningsOtherTag, NonJSON)
              => parse_out = Raises("JSONDecodeError")

C12_Witness ==
    /\ Parsed
    /\ \E x \in JsonValues :
          /\ IsDict(x)
          /\ reply_text = <<Tok("fence"), Tok("json"), Tok("ws")>> \o Bare(x)
                            \o <<Tok("ws"), Tok("fence")>>
          /\ parse_out = Returns(x)

\* ---- the claims on compress_pr_data

\* compress_pr_data has returned its text
Compressed == compressed # Pending /\ compressed.exc = "none"

Out == compressed.val

\* the file changes of the record, and those no exclude pattern matches
FilesOf(record) == IF record.files.t = "list" THEN record.files.v ELSE <<>>

Surviving == SelectSeq(FilesOf(pr), LAMBDA f : ~Excluded(f.filename))

HasLine(k) == \E i \in 1..Len(Out) : Out[i].k = k

FirstLine(k) == CHOOSE i \in 1..Len(Out) : Out[i].k = k /\ \A j \in 1..(i - 1) : Out[j].k # k

LinesOfKind(lines, k) == SelectSeq(lines, LAMBDA l : l.k = k)

\* the lines from "Files changed" up to the empty line before "Key code
\* changes", or up to the end, and the lines after "Key code changes"
FilesBlock ==
    IF ~HasLine("files_changed") THEN <<>>
    ELSE SubSeq(Out, FirstLine("files_changed"),
                IF HasLine("key_changes") THEN FirstLine("key_changes") - 2 ELSE Len(Out))

KeyBlock ==
    IF ~HasLine("key_changes") THEN <<>>
    ELSE SubSeq(Out, FirstLine("key_changes") + 1, Len(Out))

\* C13: with N surviving files, the "Files changed" section lists exactly
\* min(N, 10) file lines, those of the first surviving files in their
\* original order, followed by a single "... and N-10 more files" line if
\* and only if N > 10.
C13_FileList ==
    (Compressed /\ FilesOf(pr) # <<>>) =>
        LET N == Len(Surviving)
            listed == LinesOfKind(FilesBlock, "file")
            more == LinesOfKind(FilesBlock, "more_files")
        IN /\ Len(listed) = Min(N, 10)
           /\ \A i \in 1..Len(listed) :
                 listed[i].p = <<Surviving[i].filename, Surviving[i].additions,
                                 Surviving[i].deletions, Surviving[i].status>>
           /\ IF N > 10
              THEN /\ more = <<Line("more_files", <<N - 10>>)>>
                   /\ Last(FilesBlock).k = "more_files"
              ELSE more = <<>>

C13_Witness ==
    /\ Compressed
    /\ Len(Surviving) = 12
    /\ Len(LinesOfKind(FilesBlock, "file")) = 10
    /\ Last(FilesBlock) = Line("more_files", <<2>>)

\* the technologies the lookup table gives for the extensions of the files
TechnologiesOf(files) == UNION {TechnologyOf(files[k].filename) : k \in 1..Len(files)}

\* C14 as stated: the technology tags emitted for a record with file changes
\* are exactly the lookup-table technologies of the extensions of all its
\* surviving files, sorted; none is emitted when there is none.
C14_Claim ==
    (Compressed /\ FilesOf(pr) # <<>>) =>
        LET technologies == TechnologiesOf(Surviving)
        IN LinesOfKind(Out, "technologies") =
              IF technologies = {} THEN <<>>
              ELSE <<Line("technologies", sorted(technologies))>>

\* the record without its excluded files
WithoutExcluded(record) == [record EXCEPT !.files = JList(Surviving)]

\* the lines but the "Files changed (n): +a -d" line
ButCounts(lines) == SelectSeq(lines, LAMBDA l : l.k # "files_changed")

\* C15: an excluded file produces no file line, is not counted in the
\* overflow count, contributes no technology tag, and never appears in
\* "Key code changes": but for the counts of the "Files changed" line the
\* text is the one of the record without its excluded files (when a file
\* survives), no line names an excluded file, and every tag is the tag of a
\* surviving file.
C15_Exclusion ==
    (Compressed /\ FilesOf(pr) # <<>>) =>
        /\ \A i \in 1..Len(Out) : Out[i].k = "file" => ~Excluded(Out[i].p[1])
        /\ \A i \in 1..Len(Out) :
              Out[i].k = "more_files" => Out[i].p = <<Len(Surviving) - 10>>
        /\ \A i \in 1..Len(Out) :
              Out[i].k = "technologies" =>
                  SeqRange(Out[i].p) \subseteq TechnologiesOf(Surviving)
        /\ Surviving # <<>> =>
              ButCounts(Out) = ButCounts(compress_pr_data(WithoutExcluded(pr)).val)
        /\ Surviving = <<>> =>
              ~HasLine("file") /\ ~HasLine("technologies") /\ ~HasLine("key_changes")

C15_Witness ==
    /\ Compressed
    /\ Len(Surviving) > 10
    /\ \E k \in 1..Len(FilesOf(pr)) :
          /\ Excluded(FilesOf(pr)[k].filename)
          /\ Truthy(FilesOf(pr)[k].patch)
          /\ EndsWithCodeExtension(FilesOf(pr)[k].filename)
    /\ TechnologiesOf(FilesOf(pr)) # TechnologiesOf(Surviving)
    /\ HasLine("key_changes")

\* the surviving files with a source-code extension and a non-empty patch
Qualifying ==
    SelectSeq(Surviving,
              LAMBDA f : EndsWithCodeExtension(f.filename) /\ f.patch.t = "str" /\ f.patch.v # <<>>)

\* the lines of a patch that start with '+', not with '+++', and whose
\* stripped content holds a keyword
KeyLinesOf(patch) ==
    SelectSeq(patch,
              LAMBDA line : /\ line # <<>>
                            /\ line[1] = "+"
                            /\ ~(Len(line) >= 3 /\ line[2] = "+" /\ line[3] = "+")
                            /\ HasKeyword(line))

RECURSIVE ExpectedKeyBlock(_)
ExpectedKeyBlock(fs) ==
    IF fs = <<>> THEN <<>>
    ELSE LET f == Head(fs)
             found == KeyLinesOf(f.patch.v)
         IN <<Line("file", <<f.filename, f.additions, f.deletions, f.status>>)>>
            \o [k \in 1..Min(Len(found), 3) |-> Line("key_line", found[k])]
            \o ExpectedKeyBlock(Tail(fs))

\* C16: "Key code changes" covers the first 5 (at most) of all surviving
\* files with a source-code extension and a non-empty patch, in original
\* order; for each it gives the file line and then at most 3 lines, the
\* first ones in diff order of the patch lines that start with '+', not
\* with '+++', and whose stripped content holds a keyword; the block is
\* absent when no file qualifies.
C16_KeyChanges ==
    (Compressed /\ FilesOf(pr) # <<>>) =>
        IF Qualifying = <<>> THEN ~HasLine("key_changes")
        ELSE /\ Len(LinesOfKind(Out, "key_changes")) = 1
             /\ KeyBlock = ExpectedKeyBlock(SubSeq(Qualifying, 1, Min(Len(Qualifying), 5)))

C16_Witness ==
    /\ Compressed
    /\ Len(Qualifying) > 5
    /\ Len(KeyLinesOf(Qualifying[1].patch.v)) > 3
    /\ Len(LinesOfKind(KeyBlock, "file")) = 5
    /\ Len(LinesOfKind(KeyBlock, "key_line")) = 15

\* C17: a record whose file changes are absent or empty has neither a
\* "Files changed" nor a "Key code changes" section, and "Key code
\* changes" never comes without "Files changed" before it.
C17_FieldOmission ==
    Compressed =>
        /\ FilesOf(pr) = <<>> => ~HasLine("files_changed") /\ ~HasLine("key_changes")
        /\ \A i \in 1..Len(Out) :
              Out[i].k = "key_changes" => \E j \in 1..(i - 1) : Out[j].k = "files_changed"

C17_Witness ==
    /\ Compressed
    /\ pr.files = JList(<<>>)
    /\ Len(Out) = 6
    /\ ~HasLine("files_changed")

\* the record has a merged_at that is present and non-empty
HasMergedAt(record) ==
    /\ record.pull_request.t = "obj"
    /\ "merged_at" \in DOMAIN record.pull_request.v
    /\ record.pull_request.v["merged_at"].t = "str"
    /\ record.pull_request.v["merged_at"].v # <<>>

\* C18: the state shown is "merged" when merged_at is present and
\* non-empty, whatever the raw state; otherwise it is the raw state
\* ('unknown' when the record has no state).
C18_DerivedState ==
    Compressed =>
        LinesOfKind(Out, "state") =
            <<Line("state",
                   <<IF HasMergedAt(pr) THEN JStr(<<"merged">>)
                     ELSE IF pr.state.t = "absent" THEN JStr(<<"unknown">>)
                     ELSE pr.state>>)>>

C18_Witness ==
    /\ Compressed
    /\ HasMergedAt(pr)
    /\ pr.state = JStr(<<"closed">>)
    /\ Out[2] = Line("state", <<JStr(<<"merged">>)>>)

\* ---- the claims on _make_request

\* the answers that count as a failed attempt: an HTTP error status other
\* than 401, 403 and 404, or an exception of the transport
CountsAsFailure(a) ==
    \/ a.kind = "exception"
    \/ a.kind = "response" /\ a.status >= 400 /\ a.status \notin {401, 403, 404}

\* a 403 answer with no quota left and a reset time ahead
RateLimited(a) ==
    a.kind = "response" /\ a.status = 403 /\ a.remaining = 0 /\ a.reset_ahead

FailuresIn(as) == Cardinality({i \in 1..Len(as) : CountsAsFailure(as[i])})

\* what the policy says of the answers so far, given the answers that
\* end the call with GitHubAPIError at once
RetryPolicy(EndsAtOnce(_)) ==
    /\ retry_count = FailuresIn(answers)
    /\ \A i \in 1..Len(answers) :
          LET a == answers[i]
              last == i = Len(answers)
          IN /\ EndsAtOnce(a) =>
                   last /\ req_pc = "done" /\ req_result = Raises("GitHubAPIError")
             /\ (a.kind = "response" /\ a.status < 400) =>
                   last /\ req_pc = "done" /\ req_result = Returns(a)
             /\ CountsAsFailure(a) =>
                   IF FailuresIn(SubSeq(answers, 1, i)) < 3
                   THEN last => req_pc = "loop"
                   ELSE last /\ req_pc = "done" /\ req_result = Raises("GitHubAPIError")

Is401Or403Or404(a) == a.kind = "response" /\ a.status \in {401, 403, 404}

Is401Or404OrPlain403(a) == Is401Or403Or404(a) /\ ~RateLimited(a)

C25_Claim ==
    (pc = "done" /\ entry = "analyze_prs" /\ prs # <<>> /\ batch_size > 0 /\ UsableInputs) =>
        /\ Len(calls) = CeilDiv(Len(prs), batch_size) + 1
        /\ \A i \in 1..(Len(calls) - 1) : calls[i] = "batch"
        /\ Last(calls) = "agg"

\* what "the retry counter is incremented only by retryable failures" counts
RetryableFailures ==
    Cardinality({i \in 1..Len(answers) :
                   \/ answers[i].kind = "exception"
                   \/ /\ answers[i].status >= 400
                      /\ answers[i].status \notin {401, 403, 404}})

RateLimitWaits == Cardinality({i \in 1..Len(answers) : RateLimited(answers[i])})

C27_After ==
    (batch_size <= 0 /\ prs # <<>> /\ pc # "idle") =>
        /\ batches = <<>>
        /\ batch_results = <<>>
        /\ \A i \in 1..Len(calls) : calls[i] # "batch"
        /\ batch_size < 0 =>
              /\ raised_in # "create_batches"
              /\ entry = "create_batches" => result = Returns(JList(<<>>))
              /\ (entry = "analyze_prs" /\ pc = "done") =>
                    \/ calls = <<"agg">> /\ call_args = << <<>> >>
                    \/ calls = <<>> /\ raised_in = "_aggregate_results"
        /\ batch_size = 0 =>
              /\ pc = "done"
              /\ result = Raises("ValueError")
              /\ raised_in = "create_batches"
              /\ calls = <<>>

C27_Step ==
    (batch_size <= 0 /\ prs # <<>>) =>
        /\ batch_results' = batch_results
        /\ pc = "loop" => pc' = "done"
        /\ C27_After'

C27_NonPositiveBatchSize == [][C27_Step]_vars

C27_Witness ==
    /\ pc = "done"
    /\ entry = "analyze_prs"
    /\ batch_size < 0
    /\ Len(prs) = 3
    /\ batches = <<>>
    /\ calls = <<"agg">>
    /\ result.exc = "none"

\* C28: the "Files changed (N): +A -D" line counts all files of the
\* record, the file lines and the overflow count cover the surviving files
\* only: N is the number of files, A and D the totals over all of them,
\* N >= file lines + overflow count with equality exactly when no file is
\* excluded, and a record whose files are all excluded has the line with
\* no file line under it.
C28_SummaryLine ==
    (Compressed /\ FilesOf(pr) # <<>>) =>
        LET all == FilesOf(pr)
            summary == LinesOfKind(Out, "files_changed")
            listed == Len(LinesOfKind(FilesBlock, "file"))
            more == LinesOfKind(FilesBlock, "more_files")
            overflow == IF more = <<>> THEN 0 ELSE more[1].p[1]
        IN /\ Len(summary) = 1
           /\ summary[1].p = <<Len(all), SumOf(all, "additions"), SumOf(all, "deletions")>>
           /\ listed + overflow = Len(Surviving)
           /\ summary[1].p[1] >= listed + overflow
           /\ summary[1].p[1] = listed + overflow
                 <=> \A k \in 1..Len(all) : ~Excluded(all[k].filename)
           /\ Surviving = <<>> => ~HasLine("file") /\ ~HasLine("more_files")

C28_Witness ==
    /\ Compressed
    /\ Len(FilesOf(pr)) = 12
    /\ Len(Surviving) = 11
    /\ LinesOfKind(Out, "files_changed")[1].p[1] = 12
    /\ Len(LinesOfKind(FilesBlock, "file")) = 10
    /\ Last(FilesBlock) = Line("more_files", <<1>>)

\* ---- the claims on the fetching of pull requests

FetchDone ==
    pull_pc = "done" /\ pull_args.fn = "get_pull_requests"

HasAll(state) ==
    \E k \in 1..Len(states_of(state)) : states_of(state)[k] = "all"

\* the qualifiers is:x of a query
StateQualifiers(query) == SelectSeq(query, LAMBDA x : x[1] = "is")

IsMerged(query) ==
    \E k \in 1..Len(query) : query[k] = <<"is", "merged">>

\* the items of the fetches made, in the order they came in
RECURSIVE ItemsOf(_)
ItemsOf(log) ==
    IF log = <<>> THEN <<>>
    ELSE (IF Head(log).out.exc = "none" THEN Head(log).out.val ELSE <<>>)
         \o ItemsOf(Tail(log))

FirstWith(number, items) ==
    items[CHOOSE k \in 1..Len(items) :
            /\ items[k].number = number
            /\ \A j \in 1..(k - 1) : items[j].number # number]

\* C21: get_pull_requests with states none of which is "all": the returned
\* list has no two pull requests of the same number, has every number any of
\* the per-state fetches returned, each with the first item that carried it
\* in state order, and is sorted by creation timestamp, newest first.
C21_MergedList ==
    (FetchDone /\ ~HasAll(pull_args.state) /\ pull_out.exc = "none") =>
        LET all_prs == pull_out.val
            items == ItemsOf(fetches)
        IN  /\ \A i \in 1..Len(all_prs) : \A j \in 1..Len(all_prs) :
                  i # j => all_prs[i].number # all_prs[j].number
            /\ { all_prs[i].number : i \in 1..Len(all_prs) }
                  = { items[i].number : i \in 1..Len(items) }
            /\ \A i \in 1..Len(all_prs) :
                  all_prs[i] = FirstWith(all_prs[i].number, items)
            /\ \A i \in 1..Len(all_prs) : \A j \in 1..Len(all_prs) :
                  i < j => ~StrLess(all_prs[i].created_at, all_prs[j].created_at)

\* two fetches returned four items of three pull requests, and the list
\* returned has the three with the one that came in first as the last
C21_Witness ==
    /\ FetchDone /\ ~HasAll(pull_args.state) /\ pull_out.exc = "none"
    /\ Len(fetches) = 2
    /\ Len(ItemsOf(fetches)) = 4
    /\ Len(pull_out.val) = 3
    /\ pull_out.val[3] = ItemsOf(fetches)[1]
    /\ pull_out.val[2].found = 2

\* C22: get_pull_requests_from_multiple_repos returns one entry for every
\* repository name asked for; a GitHubAPIError while a repository is fetched
\* gives the empty list for it, and the repositories after it are fetched.
C22_MultipleRepos ==
    (pull_pc = "done" /\ pull_args.fn = "get_pull_requests_from_multiple_repos") =>
        LET names == pull_args.repo_names IN
        /\ pull_out.exc = "none"
        /\ DOMAIN pull_out.val.v = { names[k] : k \in 1..Len(names) }
        /\ Len(repo_calls) = Len(names)
        /\ \A k \in 1..Len(names) :
              /\ repo_calls[k].repo_name = names[k]
              /\ (\A j \in (k + 1)..Len(names) : names[j] # names[k]) =>
                    pull_out.val.v[names[k]] =
                       IF repo_calls[k].out.exc = "GitHubAPIError"
                       THEN JList(<<>>)
                       ELSE JList(repo_calls[k].out.val)

\* the first repository raised GitHubAPIError and the second gave pull
\* requests
C22_Witness ==
    /\ pull_pc = "done"
    /\ pull_args.fn = "get_pull_requests_from_multiple_repos"
    /\ pull_args.repo_names = <<"r1", "r2">>
    /\ repo_calls[1].out.exc = "GitHubAPIError"
    /\ repo_calls[2].out.exc = "none"
    /\ repo_calls[2].out.val # <<>>

\* C23: the query of _fetch_prs_by_state carries is:merged exactly when the
\* state is "merged", or the state is "closed" and merged_only is true; with
\* the states "all" and "open" merged_only changes nothing, and with "all",
\* alone or in a list of states, the one query made has no state qualifier.
C23_MergedOnly ==
    /\ \A k \in 1..Len(fetches) :
          LET f == fetches[k] IN
          /\ IsMerged(f.query) <=>
                (f.state = "merged"
                 \/ (f.state = "closed" /\ pull_args.merged_only))
          /\ f.state = "open" => StateQualifiers(f.query) = << <<"is", "open">> >>
          /\ f.state = "all" => StateQualifiers(f.query) = <<>>
    /\ (pull_pc # "idle" /\ pull_pc # "off" /\ HasAll(pull_args.state)) =>
          \A k \in 1..Len(fetches) : fetches[k].state = "all"

\* merged_only is true, and the states "open" and "closed" were both fetched
C23_Witness ==
    /\ FetchDone
    /\ pull_args.merged_only
    /\ Len(fetches) = 2
    /\ fetches[1].state = "open"
    /\ fetches[2].state = "closed"

\* ---- the claims on the enrichment

\* a step in which a file was visited, by enrich_pr_file called directly or
\* by an iteration of the loop of enrich_directory
VisitStep ==
    /\ visit' # <<>>
    /\ passes' # passes \/ pr_files' # pr_files

OthersUntouched ==
    \A n \in DOMAIN disk : n # visit'.file =>
        disk'[n] = disk[n] /\ fetched'[n] = fetched[n]

\* the file is JSON of a PR without a number
LacksNumber(content) ==
    /\ content.doc.t = "obj"
    /\ "number" \notin DOMAIN content.doc.v \/ content.doc.v["number"] = JNull

C24_Step ==
    (VisitStep /\ visit'.called) =>
        LET name == visit'.file IN
        /\ (LacksNumber(disk[name]) \/ visit'.answer.exc = "GitHubAPIError") =>
              /\ visit'.ret = FALSE
              /\ disk' = disk
        /\ disk'[name] # disk[name] =>
              /\ visit'.requested
              /\ visit'.answer.exc = "none"
              /\ fetched'[name] = fetched[name] + 1
        /\ OthersUntouched

IsPRName(n) == Head(n) = "pr_" /\ Last(n) = ".json"

CountedSum(st) == st.enriched + st.skipped + st.failed

\* the file holds a PR with a non-empty list of files
CarriesFiles(content) ==
    /\ content.doc.t = "obj"
    /\ "files" \in DOMAIN content.doc.v
    /\ content.doc.v["files"].t = "list"
    /\ content.doc.v["files"].v # <<>>

\* the repository is named by the argument or by the path of the directory
RepoKnown == enrich_args.repo # JNull \/ enrich_args.directory # <<>>

\* what every step keeps of the statistics
C29_Counting ==
    /\ (enrich_pc' = "returned" /\ stats' # <<>>) =>
          /\ stats'.total = CountedSum(stats')
          /\ stats'.total = Cardinality({ n \in DOMAIN disk' : IsPRName(n) })
    /\ enrich_pc' = "loop" =>
          stats'.total = CountedSum(stats') + Len(pr_files')
    /\ (VisitStep /\ visit'.fn = "enrich_directory") =>
          /\ CountedSum(stats') = CountedSum(stats) + 1
          /\ stats'.enriched >= stats.enriched
          /\ stats'.skipped >= stats.skipped
          /\ stats'.failed >= stats.failed
          /\ stats'.total = stats.total

C29_ClaimStep ==
    /\ C29_Counting
    /\ (VisitStep /\ visit'.fn = "enrich_directory"
        /\ CarriesFiles(disk[visit'.file])) =>
          /\ stats'.skipped = stats.skipped + 1
          /\ fetched' = fetched

\* C29: every PR file found by enrich_directory is counted in exactly one
\* of enriched, skipped and failed, at return total is their sum and the
\* number of pr_*.json files, and a file that already carries a non-empty
\* list of files is counted as skipped and causes no request.
C29_Claim == [][C29_ClaimStep]_vars

C29_Step ==
    /\ C29_Counting
    /\ (VisitStep /\ visit'.fn = "enrich_directory"
        /\ CarriesFiles(disk[visit'.file])) =>
          /\ fetched' = fetched
          /\ disk' = disk
          /\ IF RepoKnown THEN stats'.skipped = stats.skipped + 1
             ELSE stats'.failed = stats.failed + 1

\* C29, as it holds: the counting as stated; a file that already carries a
\* non-empty list of files causes no request and is counted as skipped when
\* the repository is named by the argument or by the path, as failed when
\* it is not.
C29_Statistics == [][C29_Step]_vars

\* enrich_directory returned after it skipped one file and enriched another
C29_Witness ==
    /\ enrich_pc = "returned"
    /\ stats # <<>>
    /\ stats.total = 2
    /\ stats.skipped = 1
    /\ stats.enriched = 1
    /\ \E n \in DOMAIN disk : IsPRName(n) /\ fetched[n] = 0 /\ CarriesFiles(disk[n])

\* the file is as enrich_pr_file leaves it
Stored(content) ==
    /\ content.format = "indent2"
    /\ content.doc.t = "obj"
    /\ {"number", "files", "files_count"} \subseteq DOMAIN content.doc.v
    /\ content.doc.v["number"].t = "num"
    /\ content.doc.v["files"].t = "list"
    /\ content.doc.v["files_count"] = JNum(Len(content.doc.v["files"].v))

StoredNonEmpty(content) == Stored(content) /\ content.doc.v["files"].v # <<>>

StoredEmpty(content) == Stored(content) /\ content.doc.v["files"].v = <<>>

C30_Common ==
    VisitStep =>
        LET name == visit'.file IN
        /\ StoredNonEmpty(disk[name]) => (fetched' = fetched /\ disk' = disk)
        /\ (visit'.requested /\ visit'.answer = Returns(<<>>)) =>
              (visit'.ret = TRUE /\ StoredEmpty(disk'[name]))
        /\ (visit'.requested /\ visit'.answer.exc = "none"
            /\ visit'.answer.val # <<>>) =>
              (visit'.ret = TRUE /\ StoredNonEmpty(disk'[name]))

C30_ClaimStep ==
    /\ C30_Common
    /\ (VisitStep /\ StoredEmpty(disk[visit'.file])) =>
          fetched'[visit'.file] = fetched[visit'.file] + 1

\* C30: once enrich_pr_file has stored a non-empty list of files, a later
\* pass of enrich_pr_file or enrich_directory over the file makes no request
\* and leaves the file as it is; a fetch that returned no files is stored
\* as an empty list, and every later pass over the file fetches again.
C30_Claim == [][C30_ClaimStep]_vars

C30_Step ==
    /\ C30_Common
    /\ (VisitStep /\ StoredEmpty(disk[visit'.file])) =>
          IF visit'.fn = "enrich_pr_file" \/ RepoKnown
          THEN fetched'[visit'.file] = fetched[visit'.file] + 1
          ELSE fetched' = fetched /\ disk' = disk

\* C30, as it holds: the same, with the file of the empty list fetched again
\* by every later enrich_pr_file call and by every enrich_directory pass
\* that has a repository name, from its argument or from the path.
C30_Idempotent == [][C30_Step]_vars

\* a first pass fetched four files and stored them, and a second pass over
\* the file made no request
C30_Witness ==
    /\ passes = 2
    /\ visit # <<>>
    /\ ~visit.requested
    /\ fetched[visit.file] = 1
    /\ StoredNonEmpty(disk[visit.file])
    /\ Len(disk[visit.file].doc.v["files"].v) = 4

====
